---- MODULE Spec2Model ----
(***************************************************************************)
(* Analytics engine of futures_app: trade store, trading-calendar query,   *)
(* price lookup, two-day log-return series, statistics and trend labels    *)
(* (analytics.py), and the date-range aggregator of the analytics page     *)
(* (ui/pages/analytics_page.py).                                           *)
(*                                                                         *)
(* Numbers.  Dates are day ordinals, so trade_date - timedelta(days=h) is  *)
(* integer subtraction.  Prices are integers; the positive ones are powers *)
(* of two, so that ln(p/q) is an exact integer multiple of ln 2: every     *)
(* log-return value of the model is an integer in units of ln 2.  Means,   *)
(* medians and variances are exact rationals [num, den]; a standard        *)
(* deviation is kept as the rational it is the square root of.  The        *)
(* thresholds 1.05, 0.95, 1.1, 0.9 are the rationals 105/100, 95/100,      *)
(* 11/10, 9/10.  Result labels are the program's Russian labels rendered   *)
(* in English: "растет" -> "increasing", "уменьшается"/"снижается" ->      *)
(* "decreasing", "стабильно" -> "stable".                                  *)
(***************************************************************************)
EXTENDS Integers, Sequences, FiniteSets, TLC

VARIABLES
    trades,     \* the trades table: a set of rows
    vanished,   \* dates whose row a later read session no longer sees
    filters,    \* AnalyticsPage._contracts_*_filter / _price_*_filter
    call,       \* the arguments of the last analysis call
    result      \* the dictionary the last analysis call returned

vars == <<trades, vanished, filters, call, result>>

----------------------------------------------------------------------------
(* Optional values: Python's None and a present value.                     *)

None == <<>>

Some(v) == <<v>>

IsNone(o) == o = <<>>

TheValue(o) == o[1]

----------------------------------------------------------------------------
(* Bounds of the model.                                                    *)

\* dates of the application-level specification are 1..MaxDate
MaxDate == 4

\* rows the application-level tables hold, as (price, contract count): a
\* row at price 1 without a count and a row at price 4 with count 0
RangeRowKinds == {<<1, <<>>>>, <<4, <<0>>>>}

\* dates of the statistics-engine specification are 1..EngineDays
EngineDays == 6

\* dates of the guard specification are 1..GuardDays
GuardDays == 5

\* largest number of trading days of the constant-ratio scenario
GeomDays == 10

\* first prices and ratios of the constant-ratio scenario
GeomStarts == {1, 2}

GeomRatios == {2, 4}

Codes == {"X"}

\* positive prices the engine specification stores: 2^0, 2^20, 2^21
EnginePrices == {1, 1048576, 2097152}

\* prices of the guard specification: negative, zero and two positive ones
GuardPrices == {-1, 0, 1, 4}

\* the dates of the two-instrument tables
CalendarDays == 3

CalendarCodes == {"X", "Y"}

\* the prices of the two instruments in those tables
CalendarPricesX == {1, 4}

CalendarPricesY == {1}


\* the dates of the filter specification are 1..FilterDays
FilterDays == 3

\* its rows, as <<price, contracts_count>>: no count, count 0 and count 2
FilterRowKinds == {<<1, <<>>>>, <<4, <<0>>>>, <<1, <<2>>>>, <<4, <<2>>>>}

\* the largest contract count handed to the validator
MaxContracts == 2

\* the dates handed to the trade-date validator are 1..ValidatorDays
ValidatorDays == 3

\* dates of the lookup specification are 1..LookupDays
LookupDays == 4

LookupPrices == {0, 1, 4}

\* the short history window, in calendar days
ShortHistory == 2

----------------------------------------------------------------------------
(* Exact rationals.                                                        *)

Rat(n, d) == [num |-> n, den |-> d]

RatEq(a, b) == a.num * b.den = b.num * a.den

\* a > b, for positive denominators
RatGT(a, b) == a.num * b.den > b.num * a.den

RatLT(a, b) == a.num * b.den < b.num * a.den

\* a * (p/q)
RatScale(a, p, q) == Rat(a.num * p, a.den * q)

RECURSIVE SumSeq(_)
SumSeq(s) == IF s = <<>> THEN 0 ELSE Head(s) + SumSeq(Tail(s))

RECURSIVE SumSqSeq(_)
SumSqSeq(s) == IF s = <<>> THEN 0 ELSE Head(s) * Head(s) + SumSqSeq(Tail(s))

\* sorted(xs) for a sequence of integers (insertion sort)
RECURSIVE Insert(_, _)
Insert(x, s) ==
    IF s = <<>> THEN <<x>>
    ELSE IF x <= Head(s) THEN <<x>> \o s
    ELSE <<Head(s)>> \o Insert(x, Tail(s))

RECURSIVE Sorted(_)
Sorted(s) == IF s = <<>> THEN <<>> ELSE Insert(Head(s), Sorted(Tail(s)))

\* the elements of a finite set of integers in ascending order
RECURSIVE SortedSet(_)
SortedSet(S) ==
    IF S = {} THEN <<>>
    ELSE LET m == CHOOSE x \in S : \A y \in S : x <= y
         IN <<m>> \o SortedSet(S \ {m})

Range(s) == {s[i] : i \in 1..Len(s)}

----------------------------------------------------------------------------
(* numpy                                                                    *)

\* np.mean
np_mean(xs) == Rat(SumSeq(xs), Len(xs))

\* np.var: population variance, sum((x - mean)^2) / N
np_var(xs) == Rat(Len(xs) * SumSqSeq(xs) - SumSeq(xs) * SumSeq(xs), Len(xs) * Len(xs))

\* mutant: the root of the mean square, the mean not subtracted
np_std_rms(xs) == [sqrt_of |-> Rat(SumSqSeq(xs), Len(xs))]

\* np.std: the square root of np.var
np_std(xs) == [sqrt_of |-> np_var(xs)]

\* np.median: the middle of the sorted values, the mean of the two middles
\* for an even count
np_median(xs) ==
    LET s == Sorted(xs)
        n == Len(xs)
    IN IF n % 2 = 1 THEN Rat(s[(n + 1) \div 2], 1)
       ELSE Rat(s[n \div 2] + s[n \div 2 + 1], 2)

np_min(xs) == CHOOSE x \in Range(xs) : \A y \in Range(xs) : x <= y

np_max(xs) == CHOOSE x \in Range(xs) : \A y \in Range(xs) : x >= y

\* base-2 logarithm of a power of two
RECURSIVE Log2(_)
Log2(n) == IF n <= 1 THEN 0 ELSE 1 + Log2(n \div 2)

\* mutant: the ratio inverted, ln(prev_price_2 / current_price)
np_log_ratio_inverted(current_price, prev_price_2) ==
    IF prev_price_2 >= current_price
    THEN Log2(prev_price_2 \div current_price)
    ELSE 0 - Log2(current_price \div prev_price_2)

\* np.log(current_price / prev_price_2), in units of ln 2, for positive
\* prices that are powers of two
np_log_ratio(current_price, prev_price_2) ==
    IF current_price >= prev_price_2
    THEN Log2(current_price \div prev_price_2)
    ELSE 0 - Log2(prev_price_2 \div current_price)

----------------------------------------------------------------------------
(* The trades table (models.Trade).                                        *)

Trade(trade_date, future_code, price, contracts_count) ==
    [trade_date |-> trade_date, future_code |-> future_code,
     price_rub_per_usd |-> price, contracts_count |-> contracts_count]

\* the rows a session sees once the rows of the vanished dates are gone
Visible(store, gone) == {t \in store : t.trade_date \notin gone}

\* ORDER BY trade_date over a set of rows
RECURSIVE OrderByTradeDate(_)
OrderByTradeDate(rows) ==
    IF rows = {} THEN <<>>
    ELSE LET r == CHOOSE x \in rows : \A y \in rows : x.trade_date <= y.trade_date
         IN <<r>> \o OrderByTradeDate(rows \ {r})

\* mutant: the instrument is not part of the WHERE clause
get_trading_days_any_code(store, future_code, start_date, end_date) ==
    LET rows == {t \in store : /\ t.trade_date >= start_date
                               /\ t.trade_date <= end_date}
        ordered == OrderByTradeDate(rows)
    IN [i \in 1..Len(ordered) |-> ordered[i].trade_date]

get_trading_days(store, future_code, start_date, end_date) ==
    LET rows == {t \in store : /\ t.future_code = future_code
                               /\ t.trade_date >= start_date
                               /\ t.trade_date <= end_date}
        ordered == OrderByTradeDate(rows)
    IN [i \in 1..Len(ordered) |-> ordered[i].trade_date]

\* mutant: a missing record reads as price 0
get_price_for_date_zero(store, future_code, trade_date) ==
    LET rows == {t \in store : /\ t.future_code = future_code
                               /\ t.trade_date = trade_date}
    IN IF rows = {} THEN Some(0)
       ELSE Some((CHOOSE t \in rows : TRUE).price_rub_per_usd)

get_price_for_date(store, future_code, trade_date) ==
    LET rows == {t \in store : /\ t.future_code = future_code
                               /\ t.trade_date = trade_date}
    IN IF rows = {} THEN None
       ELSE Some((CHOOSE t \in rows : TRUE).price_rub_per_usd)

----------------------------------------------------------------------------
(* calculate_price_change                                                  *)

ERR_TRADING_DAYS == "Insufficient data for the calculation"

ERR_PRICES == "Insufficient price data for the calculation"

ERR_LOG_CHANGE == "Could not calculate the log price change"

ErrorResult(future_code, trade_date, message) ==
    [future_code |-> future_code, trade_date |-> trade_date, error |-> message]

\* mutant: each day compared with the previous day of the list
RECURSIVE LogChangesFromPrevDay(_, _, _)
LogChangesFromPrevDay(i, sorted_days, prices) ==
    IF i > Len(sorted_days) THEN [dates |-> <<>>, values |-> <<>>]
    ELSE LET current_day == sorted_days[i]
             prev_day_2 == sorted_days[i - 1]
             current_price == prices[current_day]
             prev_price_2 == prices[prev_day_2]
             rest == LogChangesFromPrevDay(i + 1, sorted_days, prices)
         IN IF current_price > 0 /\ prev_price_2 > 0
            THEN [dates |-> <<current_day>> \o rest.dates,
                  values |-> <<np_log_ratio(current_price, prev_price_2)>> \o rest.values]
            ELSE rest

\* mutant: the guard tests the prices for # 0 instead of > 0
RECURSIVE LogChangesFromNonZero(_, _, _)
LogChangesFromNonZero(i, sorted_days, prices) ==
    IF i > Len(sorted_days) THEN [dates |-> <<>>, values |-> <<>>]
    ELSE LET current_day == sorted_days[i]
             prev_day_2 == sorted_days[i - 2]
             current_price == prices[current_day]
             prev_price_2 == prices[prev_day_2]
             rest == LogChangesFromNonZero(i + 1, sorted_days, prices)
         IN IF current_price # 0 /\ prev_price_2 # 0
            THEN [dates |-> <<current_day>> \o rest.dates,
                  values |-> <<np_log_ratio(current_price, prev_price_2)>> \o rest.values]
            ELSE rest

\* mutant: each day is compared with the first priced day of the window
RECURSIVE LogChangesFromWindowStart(_, _, _)
LogChangesFromWindowStart(i, sorted_days, prices) ==
    IF i > Len(sorted_days) THEN [dates |-> <<>>, values |-> <<>>]
    ELSE LET current_day == sorted_days[i]
             prev_day_2 == sorted_days[1]
             current_price == prices[current_day]
             prev_price_2 == prices[prev_day_2]
             rest == LogChangesFromWindowStart(i + 1, sorted_days, prices)
         IN IF current_price > 0 /\ prev_price_2 > 0
            THEN [dates |-> <<current_day>> \o rest.dates,
                  values |-> <<np_log_ratio(current_price, prev_price_2)>> \o rest.values]
            ELSE rest

\* the loop over range(2, len(sorted_days)): the points from index i on
\* (sequences are 1-based: Python's index 2 is position 3)
RECURSIVE LogChangesFrom(_, _, _)
LogChangesFrom(i, sorted_days, prices) ==
    IF i > Len(sorted_days) THEN [dates |-> <<>>, values |-> <<>>]
    ELSE LET current_day == sorted_days[i]
             prev_day_2 == sorted_days[i - 2]
             current_price == prices[current_day]
             prev_price_2 == prices[prev_day_2]
             rest == LogChangesFrom(i + 1, sorted_days, prices)
         IN IF current_price > 0 /\ prev_price_2 > 0
            THEN [dates |-> <<current_day>> \o rest.dates,
                  values |-> <<np_log_ratio(current_price, prev_price_2)>> \o rest.values]
            ELSE rest

\* mutant: the loop starts at the second day and looks one day back
BuildLogReturnsOneDay(sorted_days, prices) == LogChangesFromPrevDay(2, sorted_days, prices)

\* log_changes and dates of the loop, started at Python's index 2
BuildLogReturns(sorted_days, prices) == LogChangesFrom(3, sorted_days, prices)

Statistics(log_changes) ==
    [mean |-> np_mean(log_changes),
     std_dev |-> np_std(log_changes),
     median |-> np_median(log_changes),
     min |-> np_min(log_changes),
     max |-> np_max(log_changes),
     count |-> Len(log_changes)]

FirstHalf(log_changes) == SubSeq(log_changes, 1, Len(log_changes) \div 2)

SecondHalf(log_changes) ==
    SubSeq(log_changes, Len(log_changes) \div 2 + 1, Len(log_changes))

\* mutant: the comparisons are >= and <=
MeanTrendNonStrict(log_changes) ==
    LET first_half == FirstHalf(log_changes)
        second_half == SecondHalf(log_changes)
    IN IF Len(first_half) > 0 /\ Len(second_half) > 0
       THEN LET mean_first == np_mean(first_half)
                mean_second == np_mean(second_half)
            IN IF ~RatLT(mean_second, RatScale(mean_first, 105, 100)) THEN "increasing"
               ELSE IF ~RatGT(mean_second, RatScale(mean_first, 95, 100)) THEN "decreasing"
               ELSE "stable"
       ELSE "stable"

\* mutant: the 5% margins are taken on the magnitude of the first-half mean
MeanTrendByMagnitude(log_changes) ==
    LET first_half == FirstHalf(log_changes)
        second_half == SecondHalf(log_changes)
    IN IF Len(first_half) > 0 /\ Len(second_half) > 0
       THEN LET mean_first == np_mean(first_half)
                mean_second == np_mean(second_half)
                up == IF mean_first.num < 0 THEN 95 ELSE 105
                down == IF mean_first.num < 0 THEN 105 ELSE 95
            IN IF RatGT(mean_second, RatScale(mean_first, up, 100)) THEN "increasing"
               ELSE IF RatLT(mean_second, RatScale(mean_first, down, 100)) THEN "decreasing"
               ELSE "stable"
       ELSE "stable"

MeanTrend(log_changes) ==
    LET first_half == FirstHalf(log_changes)
        second_half == SecondHalf(log_changes)
    IN IF Len(first_half) > 0 /\ Len(second_half) > 0
       THEN LET mean_first == np_mean(first_half)
                mean_second == np_mean(second_half)
            IN IF RatGT(mean_second, RatScale(mean_first, 105, 100)) THEN "increasing"
               ELSE IF RatLT(mean_second, RatScale(mean_first, 95, 100)) THEN "decreasing"
               ELSE "stable"
       ELSE "stable"

\* mutant: the halves' standard deviations are compared, not their variances
VarianceTrendOfStd(log_changes) ==
    LET first_half == FirstHalf(log_changes)
        second_half == SecondHalf(log_changes)
    IN IF Len(first_half) > 0 /\ Len(second_half) > 0
       THEN LET var_first == np_var(first_half)
                var_second == np_var(second_half)
            IN IF RatGT(var_second, RatScale(var_first, 121, 100)) THEN "increasing"
               ELSE IF RatLT(var_second, RatScale(var_first, 81, 100)) THEN "decreasing"
               ELSE "stable"
       ELSE "stable"

VarianceTrend(log_changes) ==
    LET first_half == FirstHalf(log_changes)
        second_half == SecondHalf(log_changes)
    IN IF Len(first_half) > 0 /\ Len(second_half) > 0
       THEN LET var_first == np_var(first_half)
                var_second == np_var(second_half)
            IN IF RatGT(var_second, RatScale(var_first, 11, 10)) THEN "increasing"
               ELSE IF RatLT(var_second, RatScale(var_first, 9, 10)) THEN "decreasing"
               ELSE "stable"
       ELSE "stable"

\* mutant: the value of the last point, whatever its date
CurrentValueLast(dates, log_changes, trade_date) == Some(log_changes[Len(log_changes)])

\* dates.index(trade_date): the first position holding trade_date
CurrentValue(dates, log_changes, trade_date) ==
    IF trade_date \in Range(dates)
    THEN LET idx == CHOOSE i \in 1..Len(dates) :
                        /\ dates[i] = trade_date
                        /\ \A j \in 1..(i - 1) : dates[j] # trade_date
         IN Some(log_changes[idx])
    ELSE None

\* the trading days the window must hold
MinTradingDays == 3

\* the trading days that must have a price
MinPricedDays == 3

\* the body of calculate_price_change once trading_days is known; priceStore
\* is the table as the price lookups see it
PriceChangeFromDays(trading_days, priceStore, future_code, trade_date) ==
    IF Len(trading_days) < MinTradingDays
    THEN ErrorResult(future_code, trade_date, ERR_TRADING_DAYS)
    ELSE
      LET priced == {d \in Range(trading_days) :
                        ~IsNone(get_price_for_date(priceStore, future_code, d))}
          prices == [d \in priced |->
                        TheValue(get_price_for_date(priceStore, future_code, d))]
      IN IF Cardinality(priced) < MinPricedDays
         THEN ErrorResult(future_code, trade_date, ERR_PRICES)
         ELSE
           LET sorted_days == SortedSet(priced)
               built == BuildLogReturns(sorted_days, prices)
               log_changes == built.values
               dates == built.dates
           IN IF log_changes = <<>>
              THEN ErrorResult(future_code, trade_date, ERR_LOG_CHANGE)
              ELSE [future_code |-> future_code,
                    trade_date |-> trade_date,
                    current_value |-> CurrentValue(dates, log_changes, trade_date),
                    statistics |-> Statistics(log_changes),
                    trends |-> [mean |-> MeanTrend(log_changes),
                                variance |-> VarianceTrend(log_changes)],
                    data |-> [dates |-> dates, values |-> log_changes]]

\* mutant: the calendar query is not closed at trade_date
calculate_price_change_open_end(dayStore, priceStore, future_code, trade_date, history_days) ==
    LET start_date == trade_date - history_days
        trading_days == get_trading_days(dayStore, future_code, start_date,
                                         trade_date + history_days)
    IN PriceChangeFromDays(trading_days, priceStore, future_code, trade_date)

calculate_price_change(dayStore, priceStore, future_code, trade_date, history_days) ==
    LET start_date == trade_date - history_days
        trading_days == get_trading_days(dayStore, future_code, start_date, trade_date)
    IN PriceChangeFromDays(trading_days, priceStore, future_code, trade_date)

----------------------------------------------------------------------------
(* The filter-aware calendar query and single-date analysis that           *)
(* AnalyticsPage calls (keyword arguments include_zero_contracts,          *)
(* contracts_from, contracts_to, price_from, price_to).                    *)

\* the filter arguments of one call
FilterArgs(include_zero_contracts, contracts_from, contracts_to, price_from, price_to) ==
    [include_zero_contracts |-> include_zero_contracts,
     contracts_from |-> contracts_from, contracts_to |-> contracts_to,
     price_from |-> price_from, price_to |-> price_to]

\* mutant: a row without a contract count fails the contract-count bounds
PassesFiltersStrictCount(t, f) ==
    /\ f.include_zero_contracts \/ IsNone(t.contracts_count)
          \/ TheValue(t.contracts_count) # 0
    /\ IsNone(f.contracts_from)
          \/ (~IsNone(t.contracts_count)
                /\ TheValue(t.contracts_count) >= TheValue(f.contracts_from))
    /\ IsNone(f.contracts_to)
          \/ (~IsNone(t.contracts_count)
                /\ TheValue(t.contracts_count) <= TheValue(f.contracts_to))
    /\ IsNone(f.price_from) \/ t.price_rub_per_usd >= TheValue(f.price_from)
    /\ IsNone(f.price_to) \/ t.price_rub_per_usd <= TheValue(f.price_to)

\* a row passes the filters f
PassesFilters(t, f) ==
    /\ f.include_zero_contracts \/ IsNone(t.contracts_count)
          \/ TheValue(t.contracts_count) # 0
    /\ IsNone(f.contracts_from) \/ IsNone(t.contracts_count)
          \/ TheValue(t.contracts_count) >= TheValue(f.contracts_from)
    /\ IsNone(f.contracts_to) \/ IsNone(t.contracts_count)
          \/ TheValue(t.contracts_count) <= TheValue(f.contracts_to)
    /\ IsNone(f.price_from) \/ t.price_rub_per_usd >= TheValue(f.price_from)
    /\ IsNone(f.price_to) \/ t.price_rub_per_usd <= TheValue(f.price_to)

get_trading_days_filtered(store, future_code, start_date, end_date, f) ==
    LET rows == {t \in store : /\ t.future_code = future_code
                               /\ t.trade_date >= start_date
                               /\ t.trade_date <= end_date
                               /\ PassesFilters(t, f)}
        ordered == OrderByTradeDate(rows)
    IN [i \in 1..Len(ordered) |-> ordered[i].trade_date]

calculate_price_change_filtered(store, future_code, trade_date, history_days, f) ==
    LET start_date == trade_date - history_days
        trading_days == get_trading_days_filtered(store, future_code, start_date, trade_date, f)
    IN PriceChangeFromDays(trading_days, store, future_code, trade_date)

----------------------------------------------------------------------------
(* AnalyticsPage.analyze_date_range                                        *)

\* AnalyticsPage.history_days
UiHistoryDays == 365

ERR_RANGE == "Insufficient data for the analysis in the given range"

\* mutant: the count of trading days is left at its initial 0
RangeErrorCountZero(future_code, date_from, date_to, found, include_zero_contracts, f) ==
    [future_code |-> future_code, date_from |-> date_from, date_to |-> date_to,
     error |-> [message |-> ERR_RANGE, found |-> 0, required |-> 3],
     include_zero_contracts |-> include_zero_contracts,
     contracts_from |-> f.contracts_from, contracts_to |-> f.contracts_to,
     price_from |-> f.price_from, price_to |-> f.price_to]

\* the error dictionary; the message names the trading days found and the
\* minimum of 3
RangeError(future_code, date_from, date_to, found, include_zero_contracts, f) ==
    [future_code |-> future_code, date_from |-> date_from, date_to |-> date_to,
     error |-> [message |-> ERR_RANGE, found |-> found, required |-> 3],
     include_zero_contracts |-> include_zero_contracts,
     contracts_from |-> f.contracts_from, contracts_to |-> f.contracts_to,
     price_from |-> f.price_from, price_to |-> f.price_to]

\* the successful ones among the per-day results, in the order of the days
RECURSIVE PerDayResults(_, _, _, _, _)
PerDayResults(store, future_code, days, history_days, f) ==
    IF days = <<>> THEN <<>>
    ELSE LET r == calculate_price_change_filtered(store, future_code, Head(days),
                                                  history_days, f)
             rest == PerDayResults(store, future_code, Tail(days), history_days, f)
         IN IF "error" \notin DOMAIN r THEN <<r>> \o rest ELSE rest

\* mutant: only the upper end of the range is tested
RECURSIVE PointsUpToRangeEnd(_, _, _, _)
PointsUpToRangeEnd(dates, values, date_from, date_to) ==
    IF dates = <<>> THEN <<>>
    ELSE LET rest == PointsUpToRangeEnd(Tail(dates), Tail(values), date_from, date_to)
         IN IF Head(dates) <= date_to
            THEN <<<<Head(dates), Head(values)>>>> \o rest
            ELSE rest

\* the (date, value) pairs of one result whose date lies in the range
RECURSIVE PointsInRange(_, _, _, _)
PointsInRange(dates, values, date_from, date_to) ==
    IF dates = <<>> THEN <<>>
    ELSE LET rest == PointsInRange(Tail(dates), Tail(values), date_from, date_to)
         IN IF date_from <= Head(dates) /\ Head(dates) <= date_to
            THEN <<<<Head(dates), Head(values)>>>> \o rest
            ELSE rest

\* mutant: the points of the results are merged without the range filter
RECURSIVE MergeResultsUnfiltered(_, _, _)
MergeResultsUnfiltered(results, date_from, date_to) ==
    IF results = <<>> THEN [points |-> <<>>, all_statistics |-> <<>>]
    ELSE LET r == Head(results)
             all == [i \in 1..Len(r.data.dates) |-> <<r.data.dates[i], r.data.values[i]>>]
             rest == MergeResultsUnfiltered(Tail(results), date_from, date_to)
         IN [points |-> all \o rest.points,
             all_statistics |-> <<r.statistics>> \o rest.all_statistics]

\* all_dates/all_values zipped, and all_statistics, over the results
RECURSIVE MergeResults(_, _, _)
MergeResults(results, date_from, date_to) ==
    IF results = <<>> THEN [points |-> <<>>, all_statistics |-> <<>>]
    ELSE LET r == Head(results)
             filtered == PointsInRange(r.data.dates, r.data.values, date_from, date_to)
             rest == MergeResults(Tail(results), date_from, date_to)
         IN IF filtered # <<>>
            THEN [points |-> filtered \o rest.points,
                  all_statistics |-> <<r.statistics>> \o rest.all_statistics]
            ELSE rest

\* tuple order of Python: by date, then by value
PairLE(a, b) == a[1] < b[1] \/ (a[1] = b[1] /\ a[2] <= b[2])

RECURSIVE InsertPair(_, _)
InsertPair(x, s) ==
    IF s = <<>> THEN <<x>>
    ELSE IF PairLE(x, Head(s)) THEN <<x>> \o s
    ELSE <<Head(s)>> \o InsertPair(x, Tail(s))

\* sorted(zip(all_dates, all_values))
RECURSIVE SortedPairs(_)
SortedPairs(s) == IF s = <<>> THEN <<>> ELSE InsertPair(Head(s), SortedPairs(Tail(s)))

\* the statistics over the merged values, all 0 when there are none
RangeStatistics(all_values) ==
    IF all_values # <<>>
    THEN Statistics(all_values)
    ELSE [mean |-> Rat(0, 1), std_dev |-> [sqrt_of |-> Rat(0, 1)],
          median |-> Rat(0, 1), min |-> 0, max |-> 0, count |-> 0]

\* mutant: the first day's mean is compared with the last day's
RangeMeanTrendSwapped(all_statistics) ==
    IF Len(all_statistics) > 1
    THEN LET first_mean == all_statistics[1].mean
             last_mean == all_statistics[Len(all_statistics)].mean
         IN IF RatGT(first_mean, RatScale(last_mean, 11, 10)) THEN "increasing"
            ELSE IF RatLT(first_mean, RatScale(last_mean, 9, 10)) THEN "decreasing"
            ELSE "stable"
    ELSE "stable"

\* the mean label from the first and the last per-day statistics
RangeMeanTrend(all_statistics) ==
    IF Len(all_statistics) > 1
    THEN LET first_mean == all_statistics[1].mean
             last_mean == all_statistics[Len(all_statistics)].mean
         IN IF RatGT(last_mean, RatScale(first_mean, 11, 10)) THEN "increasing"
            ELSE IF RatLT(last_mean, RatScale(first_mean, 9, 10)) THEN "decreasing"
            ELSE "stable"
    ELSE "stable"

\* the variance label from the first and the last per-day std_dev: for
\* roots of non-negative rationals, sqrt(a) > 1.1 sqrt(b) iff a > 1.21 b
RangeVarianceTrend(all_statistics) ==
    IF Len(all_statistics) > 1
    THEN LET first_var == all_statistics[1].std_dev.sqrt_of
             last_var == all_statistics[Len(all_statistics)].std_dev.sqrt_of
         IN IF RatGT(last_var, RatScale(first_var, 121, 100)) THEN "increasing"
            ELSE IF RatLT(last_var, RatScale(first_var, 81, 100)) THEN "decreasing"
            ELSE "stable"
    ELSE "stable"

analyze_date_range(store, f, future_code, date_from, date_to, history_days, include_zero_contracts) ==
    LET calendar == FilterArgs(include_zero_contracts, f.contracts_from, f.contracts_to,
                               None, None)
        perday == FilterArgs(include_zero_contracts, f.contracts_from, f.contracts_to,
                             f.price_from, f.price_to)
        trading_days == get_trading_days_filtered(store, future_code, date_from, date_to,
                                                  calendar)
    IN IF trading_days = <<>>
       THEN RangeError(future_code, date_from, date_to, 0, include_zero_contracts, f)
       ELSE
         LET results == PerDayResults(store, future_code, trading_days, history_days, perday)
         IN IF results = <<>>
            THEN RangeError(future_code, date_from, date_to, Len(trading_days),
                            include_zero_contracts, f)
            ELSE
              LET merged == MergeResults(results, date_from, date_to)
                  sorted_data == SortedPairs(merged.points)
                  all_dates == [i \in 1..Len(sorted_data) |-> sorted_data[i][1]]
                  all_values == [i \in 1..Len(sorted_data) |-> sorted_data[i][2]]
              IN [future_code |-> future_code,
                  date_from |-> date_from,
                  date_to |-> date_to,
                  trade_date |-> date_to,
                  history_days |-> history_days,
                  current_value |-> IF all_values # <<>>
                                    THEN Some(all_values[Len(all_values)])
                                    ELSE None,
                  statistics |-> RangeStatistics(all_values),
                  trends |-> [mean |-> RangeMeanTrend(merged.all_statistics),
                              variance |-> RangeVarianceTrend(merged.all_statistics)],
                  data |-> [dates |-> all_dates, values |-> all_values],
                  include_zero_contracts |-> include_zero_contracts,
                  contracts_from |-> f.contracts_from,
                  contracts_to |-> f.contracts_to,
                  price_from |-> f.price_from,
                  price_to |-> f.price_to,
                  individual_results |-> results]

----------------------------------------------------------------------------
(* State.                                                                  *)

NoFilters ==
    [contracts_from |-> None, contracts_to |-> None,
     price_from |-> None, price_to |-> None]

NoCall == [op |-> "none"]

NoResult == [none |-> TRUE]

\* every table of one instrument whose trading days are a subset of 1..n,
\* with prices from P and no contract count
Tables(n, P) ==
    UNION {
        {{Trade(d, "X", f[d], None) : d \in D} : f \in [D -> P]}
        : D \in SUBSET (1..n)}

\* the tables among them that trade on every day 1..k, for some k <= n
ContiguousTables(n, P) ==
    UNION {
        {{Trade(d, "X", f[d], None) : d \in 1..k} : f \in [1..k -> P]}
        : k \in 0..n}

\* mutant: the session deletes the rows it read and commits
ReadOnlySessionDeleting(store) == {t \in store : FALSE}

\* the table after a session that issued SELECT statements only and was
\* closed without a commit
ReadOnlySession(store) == store

\* the order of the instrument codes (ORDER BY future_code)
CodeOrder == <<"X", "Y">>

\* the sequences that list every element of S once
Orderings(S) ==
    {q \in [1..Cardinality(S) -> S] : \A i, j \in 1..Cardinality(S) : q[i] = q[j] => i = j}

\* SELECT DISTINCT future_code WHERE trade_date = ...: in code order when
\* sort_by_code, in any order the database picks otherwise
TradedFutures(store, trade_date, sort_by_code) ==
    LET codes == {t.future_code : t \in {u \in store : u.trade_date = trade_date}}
    IN IF sort_by_code
       THEN {q \in Orderings(codes) :
                \A i, j \in 1..Len(q) :
                    i < j => \E a, b \in 1..Len(CodeOrder) :
                                a < b /\ CodeOrder[a] = q[i] /\ CodeOrder[b] = q[j]}
       ELSE Orderings(codes)

\* the dictionary of analyze_all_futures: the keys in insertion order and
\* the result of each key
analyze_all_futures(dayStore, priceStore, futures, trade_date, history_days) ==
    [order |-> futures,
     results |-> [future_code \in Range(futures) |->
                     calculate_price_change(dayStore, priceStore, future_code,
                                            trade_date, history_days)]]

\* the history windows tried over the dates 1..n: a short one and one that
\* reaches back over every date
Histories(n) == {ShortHistory, n}

\* the single-date analysis, as plot_price_changes and generate_report call it
CalculatePriceChange(n) ==
    \E future_code \in Codes, trade_date \in 1..n, history_days \in Histories(n) :
        /\ call' = [op |-> "calculate_price_change", future_code |-> future_code,
                    trade_date |-> trade_date, history_days |-> history_days]
        /\ result' = calculate_price_change(trades, Visible(trades, vanished),
                                            future_code, trade_date, history_days)
        /\ trades' = ReadOnlySession(trades)
        /\ UNCHANGED <<vanished, filters>>

\* the trading-calendar query, called on its own
GetTradingDays(C, n) ==
    \E future_code \in C, start_date \in 1..n, end_date \in 1..n :
        /\ call' = [op |-> "get_trading_days", future_code |-> future_code,
                    start_date |-> start_date, end_date |-> end_date]
        /\ result' = [days |-> get_trading_days(trades, future_code, start_date, end_date)]
        /\ trades' = ReadOnlySession(trades)
        /\ UNCHANGED <<vanished, filters>>

\* the price lookup, called on its own
GetPriceForDate(C, n) ==
    \E future_code \in C, trade_date \in 1..n :
        /\ call' = [op |-> "get_price_for_date", future_code |-> future_code,
                    trade_date |-> trade_date]
        /\ result' = [price |-> get_price_for_date(Visible(trades, vanished),
                                                   future_code, trade_date)]
        /\ trades' = ReadOnlySession(trades)
        /\ UNCHANGED <<vanished, filters>>

\* analyze_all_futures: the single-date analysis of every instrument that
\* trades on trade_date
AnalyzeAllFutures(n) ==
    \E trade_date \in 1..n, history_days \in Histories(n), sort_by_code \in BOOLEAN :
        /\ call' = [op |-> "analyze_all_futures", trade_date |-> trade_date,
                    history_days |-> history_days, sort_by_code |-> sort_by_code]
        /\ \E futures \in TradedFutures(trades, trade_date, sort_by_code) :
              result' = analyze_all_futures(trades, Visible(trades, vanished), futures,
                                            trade_date, history_days)
        /\ trades' = ReadOnlySession(trades)
        /\ UNCHANGED <<vanished, filters>>

----------------------------------------------------------------------------
(* SpecEngine: the statistics engine over every table that trades on       *)
(* consecutive days at positive prices.                                    *)

InitEngine ==
    /\ trades \in ContiguousTables(EngineDays, EnginePrices)
    /\ vanished = {}
    /\ filters = NoFilters
    /\ call = NoCall
    /\ result = NoResult

NextEngine == CalculatePriceChange(EngineDays)

SpecEngine == InitEngine /\ [][NextEngine]_vars

----------------------------------------------------------------------------
(* SpecGuard: the same analysis over tables that hold non-positive prices  *)
(* (rows written without the table's CHECK constraint).                    *)

InitGuard ==
    /\ trades \in ContiguousTables(GuardDays, GuardPrices)
    /\ vanished = {}
    /\ filters = NoFilters
    /\ call = NoCall
    /\ result = NoResult

NextGuard == CalculatePriceChange(GuardDays)

SpecGuard == InitGuard /\ [][NextGuard]_vars

----------------------------------------------------------------------------
(* SpecLookup: tables with gaps between trading days, read while another   *)
(* writer deletes rows: get_trading_days reads in a session of its own, so *)
(* a row it listed may be gone when get_price_for_date looks it up.        *)

InitLookup ==
    /\ trades \in Tables(LookupDays, LookupPrices)
    /\ vanished \in SUBSET {t.trade_date : t \in trades}
    /\ \A t \in trades : t.trade_date \in vanished => t.price_rub_per_usd = 1
    /\ filters = NoFilters
    /\ call = NoCall
    /\ result = NoResult

NextLookup == CalculatePriceChange(LookupDays)

SpecLookup == InitLookup /\ [][NextLookup]_vars

----------------------------------------------------------------------------
(* SpecGeom: tables that trade on consecutive days at prices growing by a  *)
(* constant ratio.                                                         *)

RECURSIVE Pow(_, _)
Pow(b, e) == IF e = 0 THEN 1 ELSE b * Pow(b, e - 1)

GeometricTable(k, p0, r) == {Trade(d, "X", p0 * Pow(r, d - 1), None) : d \in 1..k}

InitGeom ==
    /\ \E k \in MinTradingDays..GeomDays, p0 \in GeomStarts, r \in GeomRatios :
            trades = GeometricTable(k, p0, r)
    /\ vanished = {}
    /\ filters = NoFilters
    /\ call = NoCall
    /\ result = NoResult

NextGeom == CalculatePriceChange(GeomDays)

SpecGeom == InitGeom /\ [][NextGeom]_vars

----------------------------------------------------------------------------
(* SpecCalendar: the calendar query, the price lookup and                  *)
(* analyze_all_futures over tables of two instruments; a table holds at    *)
(* most one row per (trade_date, future_code), the primary key.            *)

\* every table of the instrument code whose trading days are a subset of
\* 1..n, with prices from P
TablesOf(code, n, P) ==
    UNION {
        {{Trade(d, code, f[d], None) : d \in D} : f \in [D -> P]}
        : D \in SUBSET (1..n)}

InitCalendar ==
    /\ \E tx \in TablesOf("X", CalendarDays, CalendarPricesX),
          ty \in TablesOf("Y", CalendarDays, CalendarPricesY) : trades = tx \cup ty
    /\ vanished = {}
    /\ filters = NoFilters
    /\ call = NoCall
    /\ result = NoResult

NextCalendar ==
    \/ GetTradingDays(CalendarCodes, CalendarDays)
    \/ GetPriceForDate(CalendarCodes, CalendarDays)
    \/ AnalyzeAllFutures(CalendarDays)

SpecCalendar == InitCalendar /\ [][NextCalendar]_vars

----------------------------------------------------------------------------
(* Spec: the analytics page over the tables earlier sessions left in the   *)
(* database file.                                                          *)

\* the tables that trade on every day 1..k, k <= n, with rows of the kinds K
RangeTables(n, K) ==
    UNION {
        {{Trade(d, "X", f[d][1], f[d][2]) : d \in 1..k} : f \in [1..k -> K]}
        : k \in 0..n}

(* SpecFilter: the filter-aware calendar query, as the report of the       *)
(* analytics page calls it with every filter argument, over tables whose   *)
(* rows have absent, zero and positive contract counts.                    *)

\* the filter settings tried
FilterCases ==
    {NoFilters,
     [NoFilters EXCEPT !.contracts_from = Some(1)],
     [NoFilters EXCEPT !.contracts_from = Some(3)],
     [NoFilters EXCEPT !.contracts_to = Some(1)],
     [NoFilters EXCEPT !.contracts_from = Some(1), !.contracts_to = Some(3)],
     [NoFilters EXCEPT !.price_from = Some(2)],
     [NoFilters EXCEPT !.price_to = Some(2)],
     [NoFilters EXCEPT !.contracts_to = Some(1), !.price_from = Some(2)]}

InitFilter ==
    /\ trades \in RangeTables(FilterDays, FilterRowKinds)
    /\ vanished = {}
    /\ filters \in FilterCases
    /\ call = NoCall
    /\ result = NoResult

\* get_trading_days with the page's filters
GetTradingDaysFiltered(n) ==
    \E future_code \in Codes, start_date \in 1..n, end_date \in 1..n,
       include_zero_contracts \in BOOLEAN :
        /\ call' = [op |-> "get_trading_days_filtered", future_code |-> future_code,
                    start_date |-> start_date, end_date |-> end_date,
                    include_zero_contracts |-> include_zero_contracts]
        /\ result' = [days |-> get_trading_days_filtered(
                                   trades, future_code, start_date, end_date,
                                   FilterArgs(include_zero_contracts,
                                              filters.contracts_from, filters.contracts_to,
                                              filters.price_from, filters.price_to))]
        /\ trades' = ReadOnlySession(trades)
        /\ UNCHANGED <<vanished, filters>>

NextFilter == GetTradingDaysFiltered(FilterDays)

SpecFilter == InitFilter /\ [][NextFilter]_vars

----------------------------------------------------------------------------
(* The analytics page.                                                     *)

\* the filters the combined page hands over
FilterChoices ==
    {NoFilters,
     [NoFilters EXCEPT !.price_to = Some(2)],
     [NoFilters EXCEPT !.contracts_from = Some(1)]}

Init ==
    /\ trades \in RangeTables(MaxDate, RangeRowKinds)
    /\ vanished = {}
    /\ filters = NoFilters
    /\ call = NoCall
    /\ result = NoResult

\* AnalyticsPage.set_analysis_params_range
SetAnalysisParamsRange ==
    \E f \in FilterChoices :
        /\ filters' = f
        /\ UNCHANGED <<trades, vanished, call, result>>

\* AnalyticsPage.analyze_data: the range analysis of a valid range
AnalyzeDateRange ==
    \E future_code \in Codes, date_from \in 1..MaxDate, date_to \in 1..MaxDate,
       include_zero_contracts \in BOOLEAN :
        /\ date_from <= date_to
        /\ call' = [op |-> "analyze_date_range", future_code |-> future_code,
                    date_from |-> date_from, date_to |-> date_to,
                    history_days |-> UiHistoryDays,
                    include_zero_contracts |-> include_zero_contracts]
        /\ result' = analyze_date_range(trades, filters, future_code, date_from, date_to,
                                        UiHistoryDays, include_zero_contracts)
        /\ trades' = ReadOnlySession(trades)
        /\ UNCHANGED <<vanished, filters>>

Next ==
    \/ SetAnalysisParamsRange
    \/ AnalyzeDateRange
    \/ CalculatePriceChange(MaxDate)
    \/ GetTradingDays(Codes, MaxDate)
    \/ GetPriceForDate(Codes, MaxDate)
    \/ AnalyzeAllFutures(MaxDate)

Spec == Init /\ [][Next]_vars

----------------------------------------------------------------------------
(* What a state says about the last single-date call, read off the table   *)
(* and the call's arguments.                                               *)

IsSingle == call.op = "calculate_price_change"

IsError(r) == "error" \in DOMAIN r

IsSuccess(r) == "statistics" \in DOMAIN r /\ "error" \notin DOMAIN r

\* the rows of the call's instrument inside its history window
WindowRows ==
    {t \in trades : /\ t.future_code = call.future_code
                    /\ t.trade_date >= call.trade_date - call.history_days
                    /\ t.trade_date <= call.trade_date}

TradingDaySet == {t.trade_date : t \in WindowRows}

\* the trading days whose price lookup finds a row
PricedDaySet == TradingDaySet \ vanished

PriceOn(d) == (CHOOSE t \in WindowRows : t.trade_date = d).price_rub_per_usd

\* the k-th smallest date of Q
Kth(Q, k) == CHOOSE d \in Q : Cardinality({e \in Q : e < d}) = k - 1

\* v = ln(p / q) in units of ln 2
IsLogOfRatio(v, p, q) == IF v >= 0 THEN p = q * Pow(2, v) ELSE q = p * Pow(2, 0 - v)

\* position i of the priced list yields a point: both prices it reads are > 0
Qualifies(Q, i) == PriceOn(Kth(Q, i)) > 0 /\ PriceOn(Kth(Q, i - 2)) > 0

ResultDates == IF "data" \in DOMAIN result THEN Range(result.data.dates) ELSE {}

\* the standard deviation sd (the root of a rational) equals the integer v
StdEq(sd, v) == v >= 0 /\ sd.sqrt_of.num = v * v * sd.sqrt_of.den

----------------------------------------------------------------------------
(* C1: a result without an error field (of the single-date analysis or of  *)
(* the range aggregator) carries statistics over a series of at least one  *)
(* point, count >= 1, and the instrument has at least 3 trading days with  *)
(* prices > 0 up to the end of the analysed period.                        *)
C1_StatisticsNeedPoints ==
    IsSuccess(result) =>
        /\ result.statistics.count >= 1
        /\ Len(result.data.values) = result.statistics.count
        /\ Cardinality({t \in trades : /\ t.future_code = result.future_code
                                       /\ t.trade_date <= result.trade_date
                                       /\ t.price_rub_per_usd > 0}) >= 3

----------------------------------------------------------------------------
(* C2: the lookback is positional.  For a priced list of n >= 3 days with  *)
(* all prices > 0 the series has exactly n-2 points; the k-th point is     *)
(* dated with the (k+2)-th day of the list and its value is the log of the *)
(* ratio of that day's price to the price of the k-th day, whatever the    *)
(* calendar gap between the two days.                                      *)
C2_PositionalLookback ==
    IsSingle =>
        LET Q == PricedDaySet
            n == Cardinality(Q)
        IN (/\ Cardinality(TradingDaySet) >= 3
            /\ n >= 3
            /\ \A d \in Q : PriceOn(d) > 0)
           => /\ IsSuccess(result)
              /\ Len(result.data.dates) = n - 2
              /\ Len(result.data.values) = n - 2
              /\ \A k \in 1..(n - 2) :
                    /\ result.data.dates[k] = Kth(Q, k + 2)
                    /\ IsLogOfRatio(result.data.values[k],
                                    PriceOn(Kth(Q, k + 2)), PriceOn(Kth(Q, k)))

\* a point whose two days are more than two calendar days apart, with a
\* non-zero value
C2_Witness ==
    /\ IsSingle
    /\ IsSuccess(result)
    /\ \A d \in PricedDaySet : PriceOn(d) > 0
    /\ \E k \in 1..Len(result.data.dates) :
          /\ result.data.dates[k] - Kth(PricedDaySet, k) > 2
          /\ result.data.values[k] # 0

----------------------------------------------------------------------------
(* C3: a price series of fewer than 3 points gives the builder nothing to  *)
(* emit: its output is the empty series, and the call returns an error     *)
(* result with no data.                                                    *)
C3_ShortSeriesEmpty ==
    IsSingle =>
        LET Q == PricedDaySet
        IN Cardinality(Q) < 3
           => /\ BuildLogReturns(SortedSet(Q), [d \in Q |-> PriceOn(d)])
                    = [dates |-> <<>>, values |-> <<>>]
              /\ IsError(result)
              /\ "data" \notin DOMAIN result
              /\ "statistics" \notin DOMAIN result

\* two priced days, both prices positive, and the call has returned
C3_Witness ==
    /\ IsSingle
    /\ Cardinality(PricedDaySet) = 2
    /\ \A d \in PricedDaySet : PriceOn(d) > 0
    /\ IsError(result)

----------------------------------------------------------------------------
(* C4: zero-price guard.  A point of the series is omitted exactly when a  *)
(* non-positive price sits at its own position k or two positions before   *)
(* it (it is the point at k or at k+2); every other point is emitted, and  *)
(* the call returns a result.                                              *)
C4_ZeroPriceGuard ==
    IsSingle /\ Cardinality(PricedDaySet) >= 3 =>
        LET Q == PricedDaySet
            n == Cardinality(Q)
            Touched(i) == \E k \in 1..n : /\ PriceOn(Kth(Q, k)) <= 0
                                          /\ (i = k \/ i = k + 2)
        IN /\ IsError(result) \/ IsSuccess(result)
           /\ \A i \in 3..n : (Kth(Q, i) \in ResultDates) <=> ~Touched(i)
           /\ ResultDates \subseteq {Kth(Q, i) : i \in 3..n}

\* a non-positive price at position 3 of five: the points at 3 and 5 are
\* omitted and the point at 4 is emitted
C4_Witness ==
    /\ IsSingle
    /\ Cardinality(PricedDaySet) = 5
    /\ PriceOn(Kth(PricedDaySet, 3)) <= 0
    /\ IsSuccess(result)
    /\ ResultDates = {Kth(PricedDaySet, 4)}

----------------------------------------------------------------------------
(* C5: with fewer than 3 trading days in the window the result is an error *)
(* that carries the number of days found and the required minimum 3.       *)
C5_ErrorCarriesCounts ==
    IsSingle /\ Cardinality(TradingDaySet) < 3 =>
        /\ IsError(result)
        /\ "found" \in DOMAIN result
        /\ "required" \in DOMAIN result
        /\ result.found = Cardinality(TradingDaySet)
        /\ result.required = 3

----------------------------------------------------------------------------
(* C6: the price lookup answers None for a date without a row; days        *)
(* without a price are dropped from the series; with 3 or more trading     *)
(* days, fewer than 3 priced days or no point at all give an error result  *)
(* about the price data and no statistics.                                 *)
InsufficientPriceData == {ERR_PRICES, ERR_LOG_CHANGE}

C6_AbsentPrices ==
    IsSingle =>
        LET seen == Visible(trades, vanished)
            Q == PricedDaySet
            n == Cardinality(Q)
        IN /\ \A d \in 1..LookupDays :
                 LET rows == {t \in seen : /\ t.trade_date = d
                                           /\ t.future_code = call.future_code}
                     price == get_price_for_date(seen, call.future_code, d)
                 IN IF rows = {} THEN price = None
                    ELSE \E t \in rows : price = Some(t.price_rub_per_usd)
           /\ ResultDates \subseteq Q
           /\ Cardinality(TradingDaySet) >= 3 =>
                 /\ n < 3 => /\ IsError(result)
                             /\ result.error = ERR_PRICES
                 /\ (n >= 3 /\ \A i \in 3..n : ~Qualifies(Q, i))
                        => /\ IsError(result)
                           /\ result.error = ERR_LOG_CHANGE
                 /\ IsError(result) => /\ result.error \in InsufficientPriceData
                                       /\ "statistics" \notin DOMAIN result

\* three trading days of which one has lost its row
C6_Witness ==
    /\ IsSingle
    /\ Cardinality(TradingDaySet) = 3
    /\ Cardinality(PricedDaySet) = 2
    /\ IsError(result)
    /\ result.error = ERR_PRICES

----------------------------------------------------------------------------
----------------------------------------------------------------------------
(* C8: single-date variance trend.  With the same halves, "increasing" iff *)
(* var(B) > 1.10 var(A), "decreasing" iff var(B) < 0.90 var(A), "stable"   *)
(* otherwise, var the population variance; an empty half gives "stable".   *)
PopVarNum(xs) == Len(xs) * SumSqSeq(xs) - SumSeq(xs) * SumSeq(xs)

C8_VarianceTrend ==
    IsSingle /\ IsSuccess(result) =>
        LET xs == result.data.values
            n == Len(xs)
            A == SubSeq(xs, 1, n \div 2)
            B == SubSeq(xs, n \div 2 + 1, n)
            \* var(X) = PopVarNum(X) / Len(X)^2
            lhs == 10 * PopVarNum(B) * Len(A) * Len(A)
            up == lhs > 11 * PopVarNum(A) * Len(B) * Len(B)
            down == lhs < 9 * PopVarNum(A) * Len(B) * Len(B)
        IN IF Len(A) = 0 \/ Len(B) = 0
           THEN result.trends.variance = "stable"
           ELSE /\ (result.trends.variance = "increasing") <=> up
                /\ (result.trends.variance = "decreasing") <=> (~up /\ down)
                /\ (result.trends.variance = "stable") <=> (~up /\ ~down)

\* both halves vary and the second varies less
C8_Witness ==
    /\ IsSingle
    /\ IsSuccess(result)
    /\ LET xs == result.data.values
           n == Len(xs)
       IN /\ PopVarNum(SubSeq(xs, 1, n \div 2)) > 0
          /\ PopVarNum(SubSeq(xs, n \div 2 + 1, n)) > 0
    /\ result.trends.variance = "decreasing"

----------------------------------------------------------------------------
(* C9 as stated: for a series of one value v the summary has               *)
(* mean = std_dev = median = min = max = v, count = 1, both trends stable. *)
C9_SinglePointAllEqual ==
    IsSingle /\ IsSuccess(result) /\ Len(result.data.values) = 1 =>
        LET v == result.data.values[1]
            st == result.statistics
        IN /\ RatEq(st.mean, Rat(v, 1))
           /\ StdEq(st.std_dev, v)
           /\ RatEq(st.median, Rat(v, 1))
           /\ st.min = v
           /\ st.max = v
           /\ st.count = 1
           /\ result.trends.mean = "stable"
           /\ result.trends.variance = "stable"

(* C9 amended: for a series of one value v the summary has                 *)
(* mean = median = min = max = v, std_dev = 0, count = 1, both trends      *)
(* stable.                                                                 *)
C9_SinglePoint ==
    IsSingle /\ IsSuccess(result) /\ Len(result.data.values) = 1 =>
        LET v == result.data.values[1]
            st == result.statistics
        IN /\ RatEq(st.mean, Rat(v, 1))
           /\ StdEq(st.std_dev, 0)
           /\ RatEq(st.median, Rat(v, 1))
           /\ st.min = v
           /\ st.max = v
           /\ st.count = 1
           /\ result.trends.mean = "stable"
           /\ result.trends.variance = "stable"

\* a series of one non-zero value
C9_Witness ==
    /\ IsSingle
    /\ IsSuccess(result)
    /\ Len(result.data.values) = 1
    /\ result.data.values[1] # 0

----------------------------------------------------------------------------
----------------------------------------------------------------------------
(* C11: in a successful single-date result current_value is the value of   *)
(* the point dated with the anchor date when the series has such a point,  *)
(* and null when it has none; it is never the value of a point with        *)
(* another date.                                                           *)
C11_CurrentValue ==
    (IsSingle /\ IsSuccess(result)) =>
        LET dates == result.data.dates
            values == result.data.values
            at == {i \in 1..Len(dates) : dates[i] = call.trade_date}
        IN /\ Cardinality(at) <= 1
           /\ at = {} => result.current_value = None
           /\ \A i \in at : result.current_value = Some(values[i])

\* the anchor's point is reported while an earlier point has another value
C11_Witness ==
    /\ IsSingle
    /\ IsSuccess(result)
    /\ \E i, j \in 1..Len(result.data.dates) :
          /\ result.data.dates[i] = call.trade_date
          /\ result.data.dates[j] # call.trade_date
          /\ result.data.values[i] # result.data.values[j]
          /\ result.current_value = Some(result.data.values[i])

\* the anchor has no point: its own price is not positive
C11_WitnessNull ==
    /\ IsSingle
    /\ IsSuccess(result)
    /\ call.trade_date \in TradingDaySet
    /\ call.trade_date \notin ResultDates
    /\ result.current_value = None

----------------------------------------------------------------------------
(* C12: the trading-calendar query returns exactly the dates d with        *)
(* start_date <= d <= end_date on which the given instrument has a trade   *)
(* record, in strictly ascending order and without duplicates; dates on    *)
(* which only other instruments trade never appear.                        *)
C12_CalendarExact ==
    call.op = "get_trading_days" =>
        LET days == result.days
            own == {t.trade_date : t \in {u \in trades :
                        /\ u.future_code = call.future_code
                        /\ u.trade_date >= call.start_date
                        /\ u.trade_date <= call.end_date}}
        IN /\ Range(days) = own
           /\ \A i, j \in 1..Len(days) : i < j => days[i] < days[j]

\* two dates of the instrument are listed while the other instrument trades
\* on a day of the range on which the queried one does not
C12_Witness ==
    /\ call.op = "get_trading_days"
    /\ Len(result.days) = 2
    /\ \E t \in trades :
          /\ t.future_code # call.future_code
          /\ t.trade_date >= call.start_date
          /\ t.trade_date <= call.end_date
          /\ t.trade_date \notin Range(result.days)

----------------------------------------------------------------------------
(* C13: the filters of the calendar query.  A row of the instrument inside *)
(* the date range is listed iff it passes each of: the zero-contract       *)
(* exclusion (only a row with count 0 fails it, and only when              *)
(* include_zero_contracts is false), the contract-count bounds (a row      *)
(* without a count always passes; a row with a count passes iff            *)
(* contracts_from <= count <= contracts_to for the bounds given), and the  *)
(* price bounds, which apply to every row.                                 *)
C13_FilterSemantics ==
    call.op = "get_trading_days_filtered" =>
        \A t \in trades :
            (/\ t.future_code = call.future_code
             /\ t.trade_date >= call.start_date
             /\ t.trade_date <= call.end_date)
            => LET absent == t.contracts_count = <<>>
                   count == t.contracts_count[1]
                   zeroRule == IF absent THEN TRUE
                               ELSE IF count = 0 THEN call.include_zero_contracts
                               ELSE TRUE
                   boundRule == IF absent THEN TRUE
                                ELSE /\ filters.contracts_from # <<>>
                                          => filters.contracts_from[1] <= count
                                     /\ filters.contracts_to # <<>>
                                          => count <= filters.contracts_to[1]
                   priceRule == /\ filters.price_from # <<>>
                                     => filters.price_from[1] <= t.price_rub_per_usd
                                /\ filters.price_to # <<>>
                                     => t.price_rub_per_usd <= filters.price_to[1]
               IN (t.trade_date \in Range(result.days))
                      <=> (zeroRule /\ boundRule /\ priceRule)

\* one query lists a row without a count under a contract bound, and drops
\* a row with a count outside the bound
C13_Witness ==
    /\ call.op = "get_trading_days_filtered"
    /\ filters.contracts_from # <<>>
    /\ \E t, u \in trades :
          /\ t.contracts_count = <<>>
          /\ t.trade_date \in Range(result.days)
          /\ u.contracts_count # <<>>
          /\ u.contracts_count[1] < filters.contracts_from[1]
          /\ u.trade_date >= call.start_date
          /\ u.trade_date <= call.end_date
          /\ u.trade_date \notin Range(result.days)

----------------------------------------------------------------------------
(* What a state says about the last range call.                            *)

IsRange == call.op = "analyze_date_range"

\* the filters the page held when it made the call, as the result records
\* them, the price bounds included
CallFilters ==
    FilterArgs(call.include_zero_contracts, result.contracts_from, result.contracts_to,
               result.price_from, result.price_to)

\* the rows of the call's instrument dated within the range
RangeRows ==
    {t \in trades : /\ t.future_code = call.future_code
                    /\ t.trade_date >= call.date_from
                    /\ t.trade_date <= call.date_to}

\* positions of a sequence
Positions(s) == 1..Len(s)

----------------------------------------------------------------------------
(* C14: the range aggregator selects its anchor days with the filters it   *)
(* passes to the per-day runs: every per-day run it reports is anchored at *)
(* a day of the range whose row passes the zero-contract flag, the         *)
(* contract-count bounds and the price bounds, and ran over the window of  *)
(* history_days calendar days ending at that anchor.                       *)
C14_AnchorsUseSameFilters ==
    (IsRange /\ "individual_results" \in DOMAIN result) =>
        \A k \in Positions(result.individual_results) :
            LET r == result.individual_results[k]
            IN /\ \E t \in RangeRows :
                     /\ t.trade_date = r.trade_date
                     /\ PassesFilters(t, CallFilters)
               /\ \A i \in Positions(r.data.dates) :
                     /\ r.data.dates[i] >= r.trade_date - call.history_days
                     /\ r.data.dates[i] <= r.trade_date

----------------------------------------------------------------------------
C15_WitnessEmpty ==
    /\ IsRange
    /\ IsError(result)
    /\ trades # {}
    /\ RangeRows = {}
    /\ result.error.found = 0

----------------------------------------------------------------------------
(* C16: in a successful range result every point of the merged series is   *)
(* dated within [date_from, date_to], the points of the per-day runs dated *)
(* before date_from are dropped, the dates ascend, and each date keeps its *)
(* value through the sort: the merged (date, value) pairs are the in-range *)
(* pairs of the per-day runs, each as often as the runs produced it.       *)
C16_MergedSeries ==
    (IsRange /\ IsSuccess(result)) =>
        LET dates == result.data.dates
            values == result.data.values
            runs == result.individual_results
            inRange(d) == call.date_from <= d /\ d <= call.date_to
            produced(d, v) ==
                SumSeq([k \in Positions(runs) |->
                           Cardinality({i \in Positions(runs[k].data.dates) :
                                           /\ runs[k].data.dates[i] = d
                                           /\ runs[k].data.values[i] = v})])
            merged(d, v) ==
                Cardinality({i \in Positions(dates) : dates[i] = d /\ values[i] = v})
        IN /\ Len(dates) = Len(values)
           /\ \A i \in Positions(dates) : inRange(dates[i])
           /\ \A i, j \in Positions(dates) : i < j => dates[i] <= dates[j]
           /\ \A i \in Positions(dates) : merged(dates[i], values[i])
                                             = produced(dates[i], values[i])
           /\ \A k \in Positions(runs) : \A i \in Positions(runs[k].data.dates) :
                 inRange(runs[k].data.dates[i])
                    => merged(runs[k].data.dates[i], runs[k].data.values[i]) >= 1

\* a per-day run holds a point dated before date_from, which is dropped,
\* and a point inside the range with another value, which is kept
C16_Witness ==
    /\ IsRange
    /\ IsSuccess(result)
    /\ \E k \in Positions(result.individual_results) :
          \E i, j \in Positions(result.individual_results[k].data.dates) :
              LET r == result.individual_results[k].data
              IN /\ r.dates[i] < call.date_from
                 /\ r.dates[j] >= call.date_from
                 /\ r.values[i] # r.values[j]
                 /\ r.dates[i] \notin Range(result.data.dates)
                 /\ \E m \in Positions(result.data.dates) :
                       /\ result.data.dates[m] = r.dates[j]
                       /\ result.data.values[m] = r.values[j]

\* the merged series holds points of two dates with different values
C16_WitnessSorted ==
    /\ IsRange
    /\ IsSuccess(result)
    /\ \E i, j \in Positions(result.data.dates) :
          /\ result.data.dates[i] < result.data.dates[j]
          /\ result.data.values[i] # result.data.values[j]

----------------------------------------------------------------------------
(* C17: the merged series of a successful range result holds at most one   *)
(* point per date, and the statistics count each date once.                *)
C17_OnePointPerDate ==
    (IsRange /\ IsSuccess(result)) =>
        /\ \A i, j \in Positions(result.data.dates) :
              i # j => result.data.dates[i] # result.data.dates[j]
        /\ result.statistics.count = Cardinality(Range(result.data.dates))

----------------------------------------------------------------------------
(* The single-date analysis the range call of one day [d, d] corresponds   *)
(* to: anchor d, the call's history window and filters.                    *)

IsOneDayRange ==
    /\ IsRange
    /\ call.date_from = call.date_to
    /\ \E t \in RangeRows : PassesFilters(t, CallFilters)

SingleForDay ==
    calculate_price_change_filtered(trades, call.future_code, call.date_from,
                                    call.history_days, CallFilters)

----------------------------------------------------------------------------
(* C18 as claimed: on a one-day range [d, d] whose day d is a valid        *)
(* trading day the range aggregator returns the statistics summary (mean,  *)
(* std_dev, median, min, max, count) of the single-date analysis anchored  *)
(* at d.                                                                   *)
C18_RoundTrip ==
    (IsOneDayRange /\ IsSuccess(SingleForDay)) =>
        /\ IsSuccess(result)
        /\ result.statistics.count = SingleForDay.statistics.count
        /\ RatEq(result.statistics.mean, SingleForDay.statistics.mean)
        /\ RatEq(result.statistics.median, SingleForDay.statistics.median)
        /\ RatEq(result.statistics.std_dev.sqrt_of, SingleForDay.statistics.std_dev.sqrt_of)
        /\ result.statistics.min = SingleForDay.statistics.min
        /\ result.statistics.max = SingleForDay.statistics.max

(* C18 as amended: on such a range the aggregator carries the single-date  *)
(* result unchanged as its only per-day result, and its own summary is     *)
(* taken over the points of that series dated d alone: with the point of   *)
(* day d, count = 1, mean = median = min = max = that value and            *)
(* std_dev = 0.  If the single-date analysis fails, so does the range.     *)
C18_OneDayRange ==
    IsOneDayRange =>
        IF IsError(SingleForDay)
        THEN IsError(result)
        ELSE LET s == SingleForDay
                 at == {i \in Positions(s.data.dates) : s.data.dates[i] = call.date_from}
                 st == result.statistics
             IN /\ IsSuccess(result)
                /\ result.individual_results = <<s>>
                /\ st.count = Cardinality(at)
                /\ \A i \in at :
                      /\ RatEq(st.mean, Rat(s.data.values[i], 1))
                      /\ RatEq(st.median, Rat(s.data.values[i], 1))
                      /\ st.min = s.data.values[i]
                      /\ st.max = s.data.values[i]
                      /\ StdEq(st.std_dev, 0)
                      /\ result.data = [dates |-> <<call.date_from>>,
                                        values |-> <<s.data.values[i]>>]

\* the single-date series has two points of different values; the range
\* summary is over the one of day d
C18_Witness ==
    /\ IsOneDayRange
    /\ IsSuccess(result)
    /\ SingleForDay.statistics.count = 2
    /\ SingleForDay.statistics.min # SingleForDay.statistics.max
    /\ result.statistics.count = 1

----------------------------------------------------------------------------
C19_WitnessSingle ==
    /\ IsRange
    /\ IsSuccess(result)
    /\ Len(result.individual_results) = 1
    /\ result.individual_results[1].statistics.count = 2
    /\ result.trends.mean = "stable"

----------------------------------------------------------------------------
(* C20: the analytics operations (calendar query, price lookup,            *)
(* single-date analysis, range aggregation, analyze_all_futures) leave the *)
(* store as it was: no step of theirs adds, changes or deletes a trade     *)
(* record, whether the call succeeds or returns an error.                  *)
AnalysisOps ==
    {"get_trading_days", "get_price_for_date", "calculate_price_change",
     "analyze_date_range", "analyze_all_futures"}

C20_WitnessError ==
    /\ IsRange
    /\ Cardinality(trades) = 2
    /\ IsError(result)

----------------------------------------------------------------------------
(* FuturesValidator (validators.py).  A validator returns (valid, errors); *)
(* the messages are rendered in English, with the values they quote.  An   *)
(* instrument code is the sequence of its characters.                      *)

Validation(valid, errors) == [valid |-> valid, errors |-> errors]

ERR_CONTRACTS_EMPTY == "Contracts count must not be empty"

ERR_CONTRACTS_NEGATIVE == "Contracts count must not be negative"

validate_contracts_count(contracts) ==
    IF IsNone(contracts)
    THEN Validation(FALSE, <<[text |-> ERR_CONTRACTS_EMPTY]>>)
    ELSE IF TheValue(contracts) < 0
    THEN Validation(FALSE, <<[text |-> ERR_CONTRACTS_NEGATIVE,
                              contracts |-> TheValue(contracts)]>>)
    ELSE Validation(TRUE, <<>>)

\* the counts tried: none, negative, zero, positive
ValidatorCounts == {None} \cup {Some(c) : c \in (0 - 2)..MaxContracts}

ContractsCountCalls ==
    {[op |-> "validate_contracts_count", contracts |-> contracts] :
        contracts \in ValidatorCounts}

\* the validator applied to the arguments at hand
ValidateContractsCount ==
    /\ call.op = "validate_contracts_count"
    /\ result = NoResult
    /\ result' = validate_contracts_count(call.contracts)
    /\ UNCHANGED <<trades, vanished, filters, call>>

\* the characters of the codes tried; "\n" is the newline
Digits == {"0", "1", "2", "3", "4", "5", "6", "7", "8", "9"}

\* int() of one digit
DigitValue(c) ==
    CASE c = "0" -> 0 [] c = "1" -> 1 [] c = "2" -> 2 [] c = "3" -> 3 [] c = "4" -> 4
      [] c = "5" -> 5 [] c = "6" -> 6 [] c = "7" -> 7 [] c = "8" -> 8 [] c = "9" -> 9

\* int() of two digits
TwoDigits(code, i) == 10 * DigitValue(code[i]) + DigitValue(code[i + 1])

\* code.startswith("FUSD_")
StartsWithPrefix(code) == Len(code) >= 5 /\ SubSeq(code, 1, 5) = <<"F", "U", "S", "D", "_">>

\* CODE_PATTERN.match(code) for ^FUSD_(\d{2})_(\d{2})$: the $ of Python
\* matches at the end of the string and also before a newline that ends it
CodePatternMatches(code) ==
    /\ Len(code) \in {10, 11}
    /\ StartsWithPrefix(code)
    /\ code[6] \in Digits /\ code[7] \in Digits
    /\ code[8] = "_"
    /\ code[9] \in Digits /\ code[10] \in Digits
    /\ Len(code) = 11 => code[11] = "\n"

ERR_CODE_EMPTY == "Futures code must not be empty"

ERR_CODE_PREFIX == "Code must start with the prefix FUSD_"

ERR_CODE_FORMAT == "Code does not match the format FUSD_MM_YY"

ERR_CODE_MONTH == "Month in code must be from 1 to 12"

validate_future_code(code) ==
    IF code = <<>>
    THEN Validation(FALSE, <<[text |-> ERR_CODE_EMPTY]>>)
    ELSE IF ~StartsWithPrefix(code)
    THEN Validation(FALSE, <<[text |-> ERR_CODE_PREFIX, code |-> code]>>)
    ELSE IF ~CodePatternMatches(code)
    THEN Validation(FALSE, <<[text |-> ERR_CODE_FORMAT, code |-> code]>>)
    ELSE LET month == TwoDigits(code, 6)
         IN IF month < 1 \/ month > 12
            THEN Validation(FALSE, <<[text |-> ERR_CODE_MONTH, month |-> month]>>)
            ELSE Validation(TRUE, <<>>)

\* the sequences over S of length at most n
SeqsUpTo(S, n) == UNION {[1..k -> S] : k \in 0..n}

\* the codes tried: a prefix, a month part, a separator, a year part and a
\* tail, each well-formed or not
CodePrefixes == {<<"F", "U", "S", "D", "_">>, <<"U", "S", "D", "_">>, <<"F", "U", "S", "D">>, <<>>}

CodeMonthParts == SeqsUpTo({"0", "1", "2", "3", "x"}, 2)

CodeYearParts == {<<"9", "8">>, <<"9">>, <<>>}

CodeTails == {<<>>, <<"\n">>, <<"x">>, <<"\n", "\n">>}

CodesTried ==
    {p \o m \o s \o y \o t : p \in CodePrefixes, m \in CodeMonthParts,
                             s \in {<<"_">>, <<>>}, y \in CodeYearParts, t \in CodeTails}

FutureCodeCalls == {[op |-> "validate_future_code", code |-> code] : code \in CodesTried}

ValidateFutureCode ==
    /\ call.op = "validate_future_code"
    /\ result = NoResult
    /\ result' = validate_future_code(call.code)
    /\ UNCHANGED <<trades, vanished, filters, call>>

\* a calendar date, where its month and year matter
CalendarDate(year, month) == [year |-> year, month |-> month]

ERR_MATCH_MISSING == "Code and expiry date must be given"

ERR_MATCH_MONTH == "Month in code does not match the month of the expiry date"

ERR_MATCH_YEAR == "Year in code does not match the year of the expiry date"

\* the window rule: 00-49 is 20YY, 50-99 is 19YY
CodeYear(year_2digit) == IF year_2digit < 50 THEN 2000 + year_2digit ELSE 1900 + year_2digit

\* mutant: the year is compared before the month
validate_code_expiry_match_year_first(code, expiry_date) ==
    IF code = <<>> \/ IsNone(expiry_date)
    THEN Validation(FALSE, <<[text |-> ERR_MATCH_MISSING]>>)
    ELSE IF ~CodePatternMatches(code)
    THEN Validation(FALSE, <<[text |-> ERR_CODE_FORMAT, code |-> code]>>)
    ELSE LET code_month == TwoDigits(code, 6)
             code_year == CodeYear(TwoDigits(code, 9))
             d == TheValue(expiry_date)
             month_errors == IF code_month # d.month
                             THEN <<[text |-> ERR_MATCH_MONTH,
                                     code |-> code_month, expiry |-> d.month]>>
                             ELSE <<>>
             year_errors == IF code_year # d.year
                            THEN <<[text |-> ERR_MATCH_YEAR,
                                    code |-> code_year, expiry |-> d.year]>>
                            ELSE <<>>
             errors == year_errors \o month_errors
         IN Validation(errors = <<>>, errors)

validate_code_expiry_match(code, expiry_date) ==
    IF code = <<>> \/ IsNone(expiry_date)
    THEN Validation(FALSE, <<[text |-> ERR_MATCH_MISSING]>>)
    ELSE IF ~CodePatternMatches(code)
    THEN Validation(FALSE, <<[text |-> ERR_CODE_FORMAT, code |-> code]>>)
    ELSE LET code_month == TwoDigits(code, 6)
             code_year == CodeYear(TwoDigits(code, 9))
             d == TheValue(expiry_date)
             month_errors == IF code_month # d.month
                             THEN <<[text |-> ERR_MATCH_MONTH,
                                     code |-> code_month, expiry |-> d.month]>>
                             ELSE <<>>
             year_errors == IF code_year # d.year
                            THEN <<[text |-> ERR_MATCH_YEAR,
                                    code |-> code_year, expiry |-> d.year]>>
                            ELSE <<>>
             errors == month_errors \o year_errors
         IN Validation(errors = <<>>, errors)

\* the codes and expiry dates tried for the match
MatchCodes ==
    {<<"F", "U", "S", "D", "_">> \o m \o <<"_">> \o y \o t :
        m \in {<<"0", "3">>, <<"0", "4">>, <<"1", "2">>, <<"1", "3">>, <<"3">>},
        y \in {<<"9", "8">>, <<"9", "9">>, <<"4", "9">>, <<"5", "0">>, <<"0", "0">>},
        t \in {<<>>, <<"\n">>, <<"x">>}}
    \cup {<<>>, <<"U", "S", "D", "_", "0", "3", "_", "9", "8">>}

MatchDates ==
    {None} \cup {Some(CalendarDate(y, m)) : y \in {1949, 1950, 1998, 1999, 2000, 2049, 2050},
                                            m \in {3, 4, 12}}

CodeExpiryMatchCalls ==
    {[op |-> "validate_code_expiry_match", code |-> code, expiry_date |-> expiry_date] :
        code \in MatchCodes, expiry_date \in MatchDates}

ValidateCodeExpiryMatch ==
    /\ call.op = "validate_code_expiry_match"
    /\ result = NoResult
    /\ result' = validate_code_expiry_match(call.code, call.expiry_date)
    /\ UNCHANGED <<trades, vanished, filters, call>>

ERR_TRADE_DATE_EMPTY == "Trade date must not be empty"

ERR_TRADE_DATE_FUTURE == "Trade date must not be in the future"

ERR_TRADE_DATE_AFTER_EXPIRY == "Trade date must not be later than the expiry date"

\* mutant: the expiry rule is tested only for a date that is not in the future
validate_trade_date_elif(trade_date, expiry_date, today) ==
    IF IsNone(trade_date)
    THEN Validation(FALSE, <<[text |-> ERR_TRADE_DATE_EMPTY]>>)
    ELSE LET d == TheValue(trade_date)
             errors == IF d > today
                       THEN <<[text |-> ERR_TRADE_DATE_FUTURE, trade_date |-> d]>>
                       ELSE IF ~IsNone(expiry_date) /\ d > TheValue(expiry_date)
                       THEN <<[text |-> ERR_TRADE_DATE_AFTER_EXPIRY, trade_date |-> d,
                               expiry_date |-> TheValue(expiry_date)]>>
                       ELSE <<>>
         IN Validation(errors = <<>>, errors)

\* today is date.today() at the call
validate_trade_date(trade_date, expiry_date, today) ==
    IF IsNone(trade_date)
    THEN Validation(FALSE, <<[text |-> ERR_TRADE_DATE_EMPTY]>>)
    ELSE LET d == TheValue(trade_date)
             future_errors == IF d > today
                              THEN <<[text |-> ERR_TRADE_DATE_FUTURE, trade_date |-> d]>>
                              ELSE <<>>
             expiry_errors == IF ~IsNone(expiry_date) /\ d > TheValue(expiry_date)
                              THEN <<[text |-> ERR_TRADE_DATE_AFTER_EXPIRY, trade_date |-> d,
                                      expiry_date |-> TheValue(expiry_date)]>>
                              ELSE <<>>
             errors == future_errors \o expiry_errors
         IN Validation(errors = <<>>, errors)

\* a date or none, over the days 1..n
OptionalDays(n) == {None} \cup {Some(d) : d \in 1..n}

TradeDateCalls ==
    {[op |-> "validate_trade_date", trade_date |-> trade_date,
      expiry_date |-> expiry_date, today |-> today] :
        trade_date \in OptionalDays(ValidatorDays),
        expiry_date \in OptionalDays(ValidatorDays), today \in 1..ValidatorDays}

ValidateTradeDate ==
    /\ call.op = "validate_trade_date"
    /\ result = NoResult
    /\ result' = validate_trade_date(call.trade_date, call.expiry_date, call.today)
    /\ UNCHANGED <<trades, vanished, filters, call>>

----------------------------------------------------------------------------
(* SpecValidate: a validator call with its arguments is at hand, and the   *)
(* validator is applied to them.                                           *)

InitValidate ==
    /\ trades = {}
    /\ vanished = {}
    /\ filters = NoFilters
    /\ call \in ContractsCountCalls \cup FutureCodeCalls \cup CodeExpiryMatchCalls
                    \cup TradeDateCalls
    /\ result = NoResult

NextValidate ==
    \/ ValidateContractsCount
    \/ ValidateFutureCode
    \/ ValidateCodeExpiryMatch
    \/ ValidateTradeDate

SpecValidate == InitValidate /\ [][NextValidate]_vars

----------------------------------------------------------------------------
(* C21: validate_contracts_count accepts an absent count and every count   *)
(* >= 0, returning (True, []), and rejects every negative count with a     *)
(* non-empty error list.                                                   *)
C21_ContractsCount ==
    (call.op = "validate_contracts_count" /\ result # NoResult) =>
        IF call.contracts = <<>> \/ call.contracts[1] >= 0
        THEN result.valid /\ result.errors = <<>>
        ELSE ~result.valid /\ result.errors # <<>>

----------------------------------------------------------------------------
(* C22: validate_future_code returns (True, []) exactly for the codes      *)
(* FUSD_MM_YY, ten characters with two-digit MM in 01..12 and two-digit    *)
(* YY, and (False, at least one error) for every other input.              *)
IsFusdCode(code) ==
    /\ Len(code) = 10
    /\ SubSeq(code, 1, 5) = <<"F", "U", "S", "D", "_">>
    /\ \A i \in {6, 7, 9, 10} : code[i] \in Digits
    /\ code[8] = "_"
    /\ TwoDigits(code, 6) \in 1..12

C22_FutureCode ==
    (call.op = "validate_future_code" /\ result # NoResult) =>
        IF IsFusdCode(call.code)
        THEN result.valid /\ result.errors = <<>>
        ELSE ~result.valid /\ result.errors # <<>>

----------------------------------------------------------------------------
C23_WitnessValid ==
    /\ call.op = "validate_code_expiry_match"
    /\ result # NoResult
    /\ result.valid
    /\ call.expiry_date[1].year = 2049

----------------------------------------------------------------------------
(* C24: validate_trade_date is valid iff the trade date is present, is not *)
(* later than today and, when an expiry date is given, is not later than   *)
(* the expiry date; a future date and a date after expiry each produce an  *)
(* error, and a date that breaks both rules produces both errors.          *)
C24_TradeDate ==
    (call.op = "validate_trade_date" /\ result # NoResult) =>
        LET present == call.trade_date # <<>>
            future == present /\ call.trade_date[1] > call.today
            late == /\ present
                    /\ call.expiry_date # <<>>
                    /\ call.trade_date[1] > call.expiry_date[1]
            texts == {result.errors[i].text : i \in 1..Len(result.errors)}
        IN /\ result.valid <=> (present /\ ~future /\ ~late)
           /\ result.valid <=> result.errors = <<>>
           /\ future <=> ERR_TRADE_DATE_FUTURE \in texts
           /\ late <=> ERR_TRADE_DATE_AFTER_EXPIRY \in texts
           /\ (future /\ late) => Len(result.errors) = 2

\* a date after today and after the expiry date: both errors
C24_Witness ==
    /\ call.op = "validate_trade_date"
    /\ result # NoResult
    /\ Len(result.errors) = 2

----------------------------------------------------------------------------
(* The writers of the trades table: delete_trades_by_date and              *)
(* import_trades_xls (services.py), add_trade and edit_trade               *)
(* (ui/pages/trades_page.py).  The table is a set of rows; that a key      *)
(* (trade_date, future_code) names at most one row is what the writers     *)
(* and the primary key have to keep, not something the representation      *)
(* gives.                                                                  *)

\* dates of the writer specifications are 1..StoreDays, and StoreDays is
\* date.today(); StoreDays + 1 is tomorrow
StoreDays == 2

StoreToday == StoreDays

\* the codes with a row in futures and in expirations; "Z" has neither
StoreCodes == {"X", "Y"}

\* the codes as the user types them
Spelling(code) ==
    CASE code = "X" -> <<"F", "U", "S", "D", "_", "0", "3", "_", "9", "8">>
      [] code = "Y" -> <<"F", "U", "S", "D", "_", "0", "6", "_", "9", "8">>
      [] OTHER      -> <<"F", "U", "S", "D", "_", "1", "2", "_", "9", "8">>

\* Expiration.expiry_date of a stored code: X expires tomorrow, Y today
ExpiryOf(code) == IF code = "X" THEN StoreDays + 1 ELSE StoreDays

\* Session.get(Trade, {"trade_date": day, "future_code": code}): the rows
\* with that key
SessionGet(store, day, code) ==
    {t \in store : t.trade_date = day /\ t.future_code = code}

\* a commit that inserts a row: the primary key (trade_date, future_code)
\* and uq_trade refuse a row whose key is stored
CommitInsert(store, row) ==
    IF SessionGet(store, row.trade_date, row.future_code) # {}
    THEN [raised |-> TRUE, store |-> store]
    ELSE [raised |-> FALSE, store |-> store \cup {row}]

\* each key names at most one row
UniqueKeys(store) ==
    \A t1 \in store, t2 \in store :
        (t1.trade_date = t2.trade_date /\ t1.future_code = t2.future_code) => t1 = t2

Elements(s) == {s[i] : i \in 1..Len(s)}

(* delete_trades_by_date(day, futures): [store, rowcount]                  *)

delete_trades_by_date_any_code(store, day, futures) ==
    LET deleted == {t \in store : t.trade_date = day}
    IN  [store |-> store \ deleted, rowcount |-> Cardinality(deleted)]

delete_trades_by_date(store, day, futures) ==
    LET \* if futures: a list that is None or empty adds no condition
        by_code == ~IsNone(futures) /\ Len(TheValue(futures)) > 0
        deleted == {t \in store :
                       /\ t.trade_date = day
                       /\ by_code => t.future_code \in Elements(TheValue(futures))}
    IN  [store |-> store \ deleted, rowcount |-> Cardinality(deleted)]

\* the lists of codes tried
FuturesLists == {None, Some(<<>>), Some(<<"X">>), Some(<<"Y", "Z">>)}

DeleteTradesByDate ==
    \E day \in 1..StoreDays, futures \in FuturesLists :
        LET done == delete_trades_by_date(trades, day, futures)
        IN  /\ call' = [op |-> "delete_trades_by_date", day |-> day, futures |-> futures]
            /\ trades' = done.store
            /\ result' = [deleted |-> done.rowcount]
            /\ UNCHANGED <<vanished, filters>>

(* FuturesValidator.validate_price, validate_code_exists, validate_trade   *)

ERR_PRICE == "Price must be greater than zero"

validate_price(price) ==
    IF price <= 0 THEN Validation(FALSE, <<[text |-> ERR_PRICE, price |-> price]>>)
    ELSE Validation(TRUE, <<>>)

ERR_CODE_UNKNOWN == "Code does not exist in the database"

validate_code_exists(code) ==
    LET format == validate_future_code(Spelling(code))
    IN  IF ~format.valid THEN format
        ELSE IF code \notin StoreCodes
             THEN Validation(FALSE, <<[text |-> ERR_CODE_UNKNOWN, code |-> code]>>)
             ELSE Validation(TRUE, <<>>)

validate_trade(trade_date, code, price, contracts, expiry_date) ==
    LET errors == validate_future_code(Spelling(code)).errors
                  \o validate_trade_date(Some(trade_date), expiry_date, StoreToday).errors
                  \o validate_price(price).errors
                  \o validate_contracts_count(contracts).errors
    IN  Validation(errors = <<>>, errors)

(* TradeEditDialog.get_input_values: a price <= 0 or a negative count      *)
(* raises ValueError                                                       *)

DialogRaises(price, cnt) == price <= 0 \/ cnt < 0

ERR_UNEXPECTED == "Unexpected error"

ERR_AFTER_EXPIRY == "Trade date is later than the expiry date of the code"

ERR_EXISTS == "A trade with this date and code already exists"

(* add_trade with the values day, code, price, cnt of the dialog:          *)
(* [store, error], error None when the row was added                       *)

add_trade_unchecked(store, day, code, price, cnt) ==
    [store |-> store \cup {Trade(day, code, price, Some(cnt))}, error |-> None]

add_trade(store, day, code, price, cnt) ==
    IF DialogRaises(price, cnt) THEN [store |-> store, error |-> Some(ERR_UNEXPECTED)]
    ELSE IF ~validate_code_exists(code).valid
    THEN [store |-> store, error |-> Some(validate_code_exists(code).errors[1].text)]
    ELSE IF day > ExpiryOf(code) THEN [store |-> store, error |-> Some(ERR_AFTER_EXPIRY)]
    ELSE LET checked == validate_trade(day, code, price, Some(cnt), Some(ExpiryOf(code)))
         IN  IF ~checked.valid THEN [store |-> store, error |-> Some(checked.errors[1].text)]
             ELSE IF SessionGet(store, day, code) # {}
             THEN [store |-> store, error |-> Some(ERR_EXISTS)]
             ELSE LET saved == CommitInsert(store, Trade(day, code, price, Some(cnt)))
                  IN  [store |-> saved.store,
                       error |-> IF saved.raised THEN Some(ERR_UNEXPECTED) ELSE None]

\* the prices and counts typed into the dialogs: two good pairs, a price
\* of zero and a negative count
DialogValues == {<<1, 0>>, <<2, 1>>, <<0, 0>>, <<1, -1>>}

\* the dialog entries of add_trade: every value for the stored codes on the
\* days up to today, and a good value for tomorrow and for the unknown code
AddInputs ==
    {<<day, code, v>> : day \in 1..StoreDays, code \in StoreCodes, v \in DialogValues}
    \cup {<<StoreDays + 1, code, <<1, 0>>>> : code \in StoreCodes}
    \cup {<<1, "Z", <<1, 0>>>>}

AddTrade ==
    \E in \in AddInputs :
        LET day == in[1]
            code == in[2]
            v == in[3]
            done == add_trade(trades, day, code, v[1], v[2])
        IN  /\ call' = [op |-> "add_trade", day |-> day, code |-> code,
                        price |-> v[1], cnt |-> v[2]]
            /\ trades' = done.store
            /\ result' = [error |-> done.error]
            /\ UNCHANGED <<vanished, filters>>

(* edit_trade of the selected row sel with the values nd, ncode, nprice,   *)
(* ncnt of the dialog                                                      *)

ERR_KEY_CHANGE == "The key (date, code) must not be changed"

ERR_NOT_FOUND == "Record not found"

edit_trade(store, sel, nd, ncode, nprice, ncnt) ==
    IF DialogRaises(nprice, ncnt) THEN [store |-> store, error |-> Some(ERR_UNEXPECTED)]
    ELSE IF <<nd, ncode>> # <<sel.trade_date, sel.future_code>>
    THEN [store |-> store, error |-> Some(ERR_KEY_CHANGE)]
    ELSE LET checked == validate_trade(nd, ncode, nprice, Some(ncnt),
                                       Some(ExpiryOf(sel.future_code)))
         IN  IF ~checked.valid THEN [store |-> store, error |-> Some(checked.errors[1].text)]
             ELSE IF SessionGet(store, sel.trade_date, sel.future_code) = {}
             THEN [store |-> store, error |-> Some(ERR_NOT_FOUND)]
             ELSE [store |-> {IF t.trade_date = sel.trade_date
                                 /\ t.future_code = sel.future_code
                              THEN Trade(t.trade_date, t.future_code, nprice, Some(ncnt))
                              ELSE t : t \in store},
                   error |-> None]

\* the dialog entries of edit_trade: every value under the key of the
\* selected row, and a good value under the key of the day after
EditInputs(sel) ==
    {<<sel.trade_date, v>> : v \in DialogValues} \cup {<<sel.trade_date + 1, <<2, 1>>>>}

EditTrade ==
    \E sel \in trades : \E in \in EditInputs(sel) :
        LET nd == in[1]
            v == in[2]
            done == edit_trade(trades, sel, nd, sel.future_code, v[1], v[2])
        IN  /\ call' = [op |-> "edit_trade", day |-> sel.trade_date,
                        code |-> sel.future_code, nd |-> nd, price |-> v[1], cnt |-> v[2]]
            /\ trades' = done.store
            /\ result' = [error |-> done.error]
            /\ UNCHANGED <<vanished, filters>>

(* import_trades_xls.  A sheet is its column layout and its rows of cells. *)
(* Layout "A" has the columns date, Фk, Fk, Vk; layout "B" has             *)
(* torg_date, kod, quotation, num_contr.  A cell is blank, a number, a     *)
(* date or a text.                                                         *)

Blank == [kind |-> "blank"]

NumCell(v) == [kind |-> "num", v |-> v]

DateCell(d) == [kind |-> "date", d |-> d]

TextCell(s) == [kind |-> "text", s |-> s]

SheetRow(date, code, price, amount) ==
    [date |-> date, code |-> code, price |-> price, amount |-> amount]

\* pd.to_datetime(..., errors="coerce").dt.date: a date, or NaT
ToDate(cell) == IF cell.kind = "date" THEN Some(cell.d) ELSE None

\* astype(str).str.strip(): a blank cell is the text "nan"
ToCode(cell) ==
    IF cell.kind = "text" THEN (IF cell.s = " " THEN "" ELSE cell.s) ELSE "nan"

\* pd.to_numeric(..., errors="coerce"): a number, or NaN
ToNumeric(cell) == IF cell.kind = "num" THEN Some(cell.v) ELSE None

\* the contracts column of the checked frame: Python's None in layout A,
\* the number or NaN of num_contr in layout B
PyNone == [kind |-> "None"]

NaN == [kind |-> "nan"]

Number(v) == [kind |-> "num", v |-> v]

FrameRow(layout, row) ==
    [trade_date |-> ToDate(row.date), future_code |-> ToCode(row.code),
     price |-> ToNumeric(row.price),
     contracts |-> IF layout = "A" THEN PyNone
                   ELSE IF row.amount.kind = "num" THEN Number(row.amount.v) ELSE NaN]

ERR_COLUMNS == "F_USD: unknown columns"

ERR_SHEET_DATE == "F_USD: wrong date format"

ERR_SHEET_CODE == "F_USD: empty code"

ERR_SHEET_PRICE == "F_USD: price must be > 0"

ERR_SHEET_CONTRACTS == "F_USD: contracts count >= 0"

ERR_SHEET_DUPLICATES == "F_USD: duplicates (date, code)"

\* _validate_trades_df: [error, rows], error None when the frame is returned
ValidateTradesDf(sheet) ==
    LET n == Len(sheet.rows)
        df == [i \in 1..n |-> FrameRow(sheet.layout, sheet.rows[i])]
        failed(text) == [error |-> Some(text), rows |-> <<>>]
    IN  IF sheet.layout \notin {"A", "B"} THEN failed(ERR_COLUMNS)
        ELSE IF \E i \in 1..n : IsNone(df[i].trade_date) THEN failed(ERR_SHEET_DATE)
        ELSE IF \E i \in 1..n : df[i].future_code = "" THEN failed(ERR_SHEET_CODE)
        ELSE IF \E i \in 1..n : IsNone(df[i].price) \/ TheValue(df[i].price) <= 0
             THEN failed(ERR_SHEET_PRICE)
        ELSE IF \E i \in 1..n : df[i].contracts.kind = "num" /\ df[i].contracts.v < 0
             THEN failed(ERR_SHEET_CONTRACTS)
        ELSE IF \E i \in 1..n, j \in 1..n :
                    /\ i < j
                    /\ df[i].trade_date = df[j].trade_date
                    /\ df[i].future_code = df[j].future_code
             THEN failed(ERR_SHEET_DUPLICATES)
        ELSE [error |-> None,
              rows |-> [i \in 1..n |->
                           [trade_date |-> TheValue(df[i].trade_date),
                            future_code |-> df[i].future_code,
                            price |-> TheValue(df[i].price),
                            contracts |-> df[i].contracts]]]

\* the rows of the frame written in order inside one transaction:
\* [raised, store].  Trade has no column volume_mln_rub, so the constructor
\* call of a new key raises TypeError; int() of a NaN count raises
\* ValueError.  An exception ends the loop.
RECURSIVE WriteRows(_, _, _, _)
WriteRows(store, rows, i, mode) ==
    IF i > Len(rows) THEN [raised |-> None, store |-> store]
    ELSE LET r == rows[i]
             t == SessionGet(store, r.trade_date, r.future_code)
         IN  IF t = {}
             THEN IF r.contracts.kind = "nan"
                  THEN [raised |-> Some("ValueError"), store |-> store]
                  ELSE [raised |-> Some("TypeError"), store |-> store]
             ELSE IF mode \in {"upsert", "replace"}
             THEN IF r.contracts.kind = "nan"
                  THEN [raised |-> Some("ValueError"), store |-> store]
                  ELSE WriteRows(
                           {IF u \in t
                            THEN Trade(u.trade_date, u.future_code, r.price,
                                       IF r.contracts.kind = "None" THEN None
                                       ELSE Some(r.contracts.v))
                            ELSE u : u \in store},
                           rows, i + 1, mode)
             ELSE WriteRows(store, rows, i + 1, mode)

\* import_trades_xls(path, mode) over the sheet read from path:
\* [raised, store]; s.begin() rolls the transaction back on an exception
import_trades_xls(store, sheet, mode) ==
    LET df == ValidateTradesDf(sheet)
    IN  IF ~IsNone(df.error) THEN [raised |-> Some("ValidationError"), store |-> store]
        ELSE LET written == WriteRows(store, df.rows, 1, mode)
             IN  IF ~IsNone(written.raised)
                 THEN [raised |-> written.raised, store |-> store]
                 ELSE written

ImportModes == {"insert", "upsert", "replace"}

ImportTradesXls(sheet, mode) ==
    LET done == import_trades_xls(trades, sheet, mode)
    IN  /\ call' = [op |-> "import_trades_xls", sheet |-> sheet, mode |-> mode]
        /\ trades' = done.store
        /\ result' = [raised |-> done.raised]
        /\ UNCHANGED <<vanished, filters>>

----------------------------------------------------------------------------
(* SpecStore: the writers applied in any order to an empty table.          *)

\* the one-row sheets the writer specification imports
StoreSheets ==
    {[layout |-> "B",
      rows |-> <<SheetRow(DateCell(d), TextCell(c), NumCell(2), NumCell(1))>>] :
        d \in 1..StoreDays, c \in {"X"}}

InitStore ==
    /\ trades = {}
    /\ vanished = {}
    /\ filters = NoFilters
    /\ call = NoCall
    /\ result = NoResult

ImportAnySheet == \E sheet \in StoreSheets, mode \in ImportModes : ImportTradesXls(sheet, mode)

NextStore ==
    \/ AddTrade
    \/ EditTrade
    \/ DeleteTradesByDate
    \/ ImportAnySheet

SpecStore == InitStore /\ [][NextStore]_vars

\* C25: delete_trades_by_date(day, futures) removes exactly the rows of day
\* (of the listed codes when a non-empty list is given), leaves every other
\* row as it was and returns the number of rows removed
C25_DeleteByDate ==
    [][call'.op = "delete_trades_by_date" =>
          LET listed == ~IsNone(call'.futures) /\ Len(TheValue(call'.futures)) > 0
              removed == {t \in trades :
                             /\ t.trade_date = call'.day
                             /\ listed => \E i \in 1..Len(TheValue(call'.futures)) :
                                              TheValue(call'.futures)[i] = t.future_code}
          IN  /\ trades' = trades \ removed
              /\ result'.deleted = Cardinality(removed)]_vars

\* a delete by a list of codes removed one row and left a row of the same
\* day and a row of another day in the table
C25_Witness ==
    /\ call.op = "delete_trades_by_date"
    /\ ~IsNone(call.futures) /\ Len(TheValue(call.futures)) > 0
    /\ result.deleted = 1
    /\ \E t \in trades : t.trade_date = call.day
    /\ \E t \in trades : t.trade_date # call.day

\* a delete without a list removed the rows of both codes
C25_WitnessAll ==
    /\ call.op = "delete_trades_by_date"
    /\ IsNone(call.futures)
    /\ result.deleted = 2
    /\ trades # {}

\* C26: after any sequence of inserts, imports, edits and deletes the table
\* holds at most one row per (trade_date, future_code), and an add_trade
\* whose key is stored reports an error and leaves the table, so the price
\* and the count of the stored row, as it was
C26_UniqueKey ==
    /\ [](UniqueKeys(trades))
    /\ [][(call'.op = "add_trade" /\ SessionGet(trades, call'.day, call'.code) # {}) =>
              (~IsNone(result'.error) /\ trades' = trades)]_vars

\* an add_trade with good values was refused because its key is stored with
\* another price and another count
C26_Witness ==
    /\ call.op = "add_trade"
    /\ result.error = Some(ERR_EXISTS)
    /\ \E t \in SessionGet(trades, call.day, call.code) :
           /\ t.price_rub_per_usd # call.price
           /\ t.contracts_count # Some(call.cnt)
    /\ Cardinality(trades) >= 2

----------------------------------------------------------------------------
(* SpecImport: one import_trades_xls of a chosen sheet and mode into a     *)
(* table of rows at price 1 with count 0.                                  *)

\* the rows of the sheets: the good rows at price 2, with an amount of 1 or
\* none, and one row for each kind of fault
GoodSheetRows ==
    {SheetRow(DateCell(d), TextCell(c), NumCell(2), a) :
        d \in 1..StoreDays, c \in StoreCodes, a \in {NumCell(1), Blank}}

FaultySheetRows ==
    {SheetRow(Blank, TextCell("X"), NumCell(2), NumCell(1)),
     SheetRow(DateCell(1), TextCell(" "), NumCell(2), NumCell(1)),
     SheetRow(DateCell(1), Blank, NumCell(2), NumCell(1)),
     SheetRow(DateCell(1), TextCell("X"), NumCell(0), NumCell(1)),
     SheetRow(DateCell(1), TextCell("X"), Blank, NumCell(1)),
     SheetRow(DateCell(1), TextCell("X"), NumCell(2), NumCell(0 - 1))}

\* the sheets without a row, of one row and of two rows
SheetsOf(R) == {<<>>} \cup {<<r>> : r \in R} \cup {<<r1, r2>> : r1 \in R, r2 \in R}

ImportSheets ==
    {[layout |-> l, rows |-> rows] :
        l \in {"A", "B"}, rows \in SheetsOf(GoodSheetRows \cup FaultySheetRows)}
    \cup {[layout |-> "other", rows |-> <<>>]}

ImportTables ==
    {{Trade(k[1], k[2], 1, Some(0)) : k \in keys} :
        keys \in SUBSET ((1..StoreDays) \X StoreCodes)}

InitImport ==
    /\ trades \in ImportTables
    /\ vanished = {}
    /\ filters = NoFilters
    /\ call \in {[op |-> "import chosen", sheet |-> sheet, mode |-> mode] :
                    sheet \in ImportSheets, mode \in ImportModes}
    /\ result = NoResult

ImportChosenSheet ==
    /\ call.op = "import chosen"
    /\ ImportTradesXls(call.sheet, call.mode)

NextImport == ImportChosenSheet

SpecImport == InitImport /\ [][NextImport]_vars

\* the faults of a sheet the claim names: a missing date, an empty code, a
\* price <= 0, a negative contract count, a repeated (date, code)
SheetKey(row) == <<row.date, row.code>>

HasNamedFault(sheet) ==
    \/ \E i \in 1..Len(sheet.rows) :
           LET row == sheet.rows[i]
           IN  \/ row.date.kind # "date"
               \/ row.code.kind # "text" \/ row.code.s = " "
               \/ row.price.kind = "num" /\ row.price.v <= 0
               \/ sheet.layout = "B" /\ row.amount.kind = "num" /\ row.amount.v < 0
    \/ \E i \in 1..Len(sheet.rows), j \in 1..Len(sheet.rows) :
           i # j /\ SheetKey(sheet.rows[i]) = SheetKey(sheet.rows[j])

\* a sheet in a known layout without a named fault, with a price in every
\* row and, in layout B, a count in every row
IsValidSheet(sheet) ==
    /\ sheet.layout \in {"A", "B"}
    /\ ~HasNamedFault(sheet)
    /\ \A i \in 1..Len(sheet.rows) :
           /\ sheet.rows[i].price.kind = "num"
           /\ sheet.layout = "B" => sheet.rows[i].amount.kind = "num"

\* the trade a row of a valid sheet stands for
TradeOfRow(layout, row) ==
    Trade(row.date.d, row.code.s, row.price.v,
          IF layout = "A" THEN None ELSE Some(row.amount.v))

\* C30: a sheet with a named fault raises ValidationError and leaves the
\* table as it was; a valid sheet in mode insert adds the rows of the keys
\* not stored and nothing else, and in mode upsert or replace every stored
\* key of the sheet ends with the price and the count of its sheet row
C30_Import ==
    [][call'.op = "import_trades_xls" =>
          LET sheet == call'.sheet
              rows == {TradeOfRow(sheet.layout, sheet.rows[i]) : i \in 1..Len(sheet.rows)}
              fresh == {r \in rows : SessionGet(trades, r.trade_date, r.future_code) = {}}
          IN  /\ (sheet.layout \in {"A", "B"} /\ HasNamedFault(sheet)) =>
                     (result'.raised = Some("ValidationError") /\ trades' = trades)
              /\ (IsValidSheet(sheet) /\ call'.mode = "insert") =>
                     trades' = trades \cup fresh
              /\ (IsValidSheet(sheet) /\ call'.mode \in {"upsert", "replace"}) =>
                     \A r \in rows \ fresh : r \in trades']_vars

\* what the import of this source does keep: a sheet the frame check
\* refuses, or whose rows cannot all be written, leaves the table as it
\* was; a sheet of stored keys is skipped by insert and written by upsert
\* and replace
C30_ImportStoredKeys ==
    [][call'.op = "import_trades_xls" =>
          LET sheet == call'.sheet
              rows == {TradeOfRow(sheet.layout, sheet.rows[i]) : i \in 1..Len(sheet.rows)}
              fresh == {r \in rows : SessionGet(trades, r.trade_date, r.future_code) = {}}
          IN  /\ ~IsNone(result'.raised) => trades' = trades
              /\ (IsValidSheet(sheet) /\ fresh = {}) =>
                     /\ IsNone(result'.raised)
                     /\ call'.mode = "insert" => trades' = trades
                     /\ call'.mode \in {"upsert", "replace"} =>
                            /\ rows \subseteq trades'
                            /\ Cardinality(trades') = Cardinality(trades)]_vars

----------------------------------------------------------------------------
\* C27: a result of calculate_price_change is an error result (an error
\* field and no statistics, trends or data) or a success result (no error
\* field; as many dates as values, and count of them, at least one; the
\* dates strictly ascending and inside [trade_date - history_days, trade_date])
C27_ResultShape ==
    call.op = "calculate_price_change" =>
        LET fields == DOMAIN result
        IN  \/ /\ "error" \in fields
               /\ fields \cap {"statistics", "trends", "data", "current_value"} = {}
            \/ /\ "error" \notin fields
               /\ {"statistics", "trends", "data"} \subseteq fields
               /\ Len(result.data.dates) = Len(result.data.values)
               /\ Len(result.data.values) = result.statistics.count
               /\ result.statistics.count >= 1
               /\ \A i \in 1..(Len(result.data.dates) - 1) :
                      result.data.dates[i] < result.data.dates[i + 1]
               /\ \A i \in 1..Len(result.data.dates) :
                      /\ result.data.dates[i] >= call.trade_date - call.history_days
                      /\ result.data.dates[i] <= call.trade_date

\* a success result computed for a date before the last trading day of
\* the table
C27_Witness ==
    /\ call.op = "calculate_price_change"
    /\ "error" \notin DOMAIN result
    /\ result.statistics.count = 1
    /\ \E t \in trades : t.trade_date > call.trade_date

\* an error result for a date that has a row
C27_WitnessError ==
    /\ call.op = "calculate_price_change"
    /\ "error" \in DOMAIN result
    /\ result.error = ERR_LOG_CHANGE

----------------------------------------------------------------------------
\* the sum of the values i..j of a series
RECURSIVE SumFromTo(_, _, _)
SumFromTo(xs, i, j) == IF i > j THEN 0 ELSE xs[i] + SumFromTo(xs, i + 1, j)

\* the first-half mean of the analysed series is negative (the series has
\* at least two points, so neither half is empty)
FirstHalfMeanNegative ==
    /\ call.op = "calculate_price_change"
    /\ "error" \notin DOMAIN result
    /\ Len(result.data.values) >= 2
    /\ SumFromTo(result.data.values, 1, Len(result.data.values) \div 2) < 0

C28_WitnessDecreasing ==
    /\ FirstHalfMeanNegative
    /\ result.trends.mean = "decreasing"

----------------------------------------------------------------------------
(* SpecOverlap: the range analysis of a chosen range with a history window *)
(* of a few days over tables with gaps, so that the per-day runs of        *)
(* neighbouring anchor days look back over different windows and still     *)
(* share dates.                                                            *)

\* dates of the overlap specification are 1..OverlapDays
OverlapDays == 5

\* the history window of the overlap specification, in calendar days
OverlapHistory == ShortHistory + 1

OverlapTables ==
    UNION {
        {{Trade(d, "X", f[d][1], f[d][2]) : d \in D} : f \in [D -> RangeRowKinds]}
        : D \in SUBSET (1..OverlapDays)}

\* the ranges the page can hold: the instrument, the two dates and the
\* zero-contracts checkbox
ChosenRanges ==
    {[op |-> "range chosen", future_code |-> future_code, date_from |-> date_from,
      date_to |-> date_to, history_days |-> OverlapHistory,
      include_zero_contracts |-> include_zero_contracts] :
        future_code \in Codes, date_from \in 1..OverlapDays,
        date_to \in 1..OverlapDays, include_zero_contracts \in BOOLEAN}

InitOverlap ==
    /\ trades \in OverlapTables
    /\ vanished = {}
    /\ filters \in {NoFilters, [NoFilters EXCEPT !.price_to = Some(2)]}
    /\ call \in {c \in ChosenRanges : c.date_from <= c.date_to}
    /\ result = NoResult

\* analyze_date_range of the chosen range with the short history window
AnalyzeDateRangeShortHistory ==
    /\ call.op = "range chosen"
    /\ call' = [call EXCEPT !.op = "analyze_date_range"]
    /\ result' = analyze_date_range(trades, filters, call.future_code, call.date_from,
                                    call.date_to, call.history_days,
                                    call.include_zero_contracts)
    /\ trades' = ReadOnlySession(trades)
    /\ UNCHANGED <<vanished, filters>>

NextOverlap == AnalyzeDateRangeShortHistory

SpecOverlap == InitOverlap /\ [][NextOverlap]_vars

\* the per-day runs r1, r2 of a range result emit the same date at
\* positions i, j
SharedPoint(r1, r2, i, j) ==
    /\ r1.trade_date # r2.trade_date
    /\ i \in 1..Len(r1.data.dates)
    /\ j \in 1..Len(r2.data.dates)
    /\ r1.data.dates[i] = r2.data.dates[j]

\* C29: when the per-day runs of two anchor days of a range both emit a
\* point for one date, the two points have the same value
C29_AnchorIndependent ==
    (call.op = "analyze_date_range" /\ "error" \notin DOMAIN result) =>
        \A a \in 1..Len(result.individual_results),
           b \in 1..Len(result.individual_results) :
            LET r1 == result.individual_results[a]
                r2 == result.individual_results[b]
            IN  \A i \in 1..Len(r1.data.dates), j \in 1..Len(r2.data.dates) :
                    SharedPoint(r1, r2, i, j) => r1.data.values[i] = r2.data.values[j]

\* two runs whose windows hold different trading days share a date inside
\* the range, with a value that is not 0
C29_Witness ==
    /\ call.op = "analyze_date_range"
    /\ "error" \notin DOMAIN result
    /\ \E a \in 1..Len(result.individual_results),
          b \in 1..Len(result.individual_results) :
           LET r1 == result.individual_results[a]
               r2 == result.individual_results[b]
           IN  \E i \in 1..Len(r1.data.dates), j \in 1..Len(r2.data.dates) :
                   /\ SharedPoint(r1, r2, i, j)
                   /\ r1.data.dates[i] >= call.date_from
                   /\ r1.data.dates[i] <= call.date_to
                   /\ r1.data.values[i] # 0
                   /\ r1.data.dates[1] # r2.data.dates[1]

====
